---- MODULE Spec2Model ----
(***************************************************************************)
(* Model of libnmcrpc's name registration: the NameRegistration state      *)
(* machine (name_new, then name_firstupdate after FIRSTUPDATE_DELAY        *)
(* confirmations), its stream operators, and the daemon's ledger it polls. *)
(***************************************************************************)
EXTENDS Integers, Sequences, FiniteSets, TLC

(* ------------------------------------------------------------------ *)
(* Bounds of the model.                                                *)

\* Number of transactions the daemon creates before it refuses new ones.
MaxTx == 2
\* Values a caller sets.
Values == {"", "v"}

(* ------------------------------------------------------------------ *)
(* Program constants.                                                  *)

FIRSTUPDATE_DELAY == 12

\* enum State
NOT_STARTED == "NOT_STARTED"
REGISTERED == "REGISTERED"
ACTIVATED == "ACTIVATED"

VARIABLES
  reg,      \* the NameRegistration object the caller holds
  ledger,   \* the daemon's wallet: transaction id -> confirmations
  stream,   \* the JSON text last written by operator<<
  last,     \* the most recent call: operation, arguments, outcome, RPC calls
  hist,     \* what has happened to the object reg since it was constructed
  names,    \* the list of a RegistrationManager, in insertion order
  twin,     \* the object loaded from the saved state of reg, once there is one
  unlocker, \* the WalletUnlocker object the caller holds
  replies,  \* what the daemon answered to the calls of the last interface call
  heap,     \* number of objects the manager has made with new, not deleted
  pc        \* where the update that is running step by step stands

vars == <<reg, ledger, stream, last, hist, names, twin, unlocker, replies,
          heap, pc>>

(* ------------------------------------------------------------------ *)
(* Exceptions.  Every exception is a record of its class, its what()   *)
(* text, and the payload RpcError (code) and NameAlreadyReserved (name)*)
(* carry.                                                              *)

NoError == [cls |-> "none", what |-> "", code |-> 0, name |-> ""]

runtime_error(msg) ==
  [cls |-> "std::runtime_error", what |-> msg, code |-> 0, name |-> ""]

NameAlreadyReserved(n) ==
  [cls |-> "NameAlreadyReserved", what |-> "Name is already reserved: " \o n,
   code |-> 0, name |-> n]

RpcError(c) ==
  [cls |-> "JsonRpc::RpcError", what |-> "RPC returned an error response.",
   code |-> c, name |-> ""]

HttpError ==
  [cls |-> "JsonRpc::HttpError", what |-> "", code |-> 0, name |-> ""]

\* What one executeRpc call can do: answer, or throw (the daemon reports an
\* error; a failing connection throws its own class and is handled alike).
RpcOutcomes == {"ok", "rpc"}

RpcFailure(f) == IF f = "rpc" THEN RpcError(-1) ELSE HttpError

\* The two std::runtime_error the spec calls InvalidStateError and
\* NotYetEligibleError.
InvalidStateError(op) ==
  runtime_error("Can " \o op \o "() only in "
                \o (IF op = "registerName" THEN "NOT_STARTED" ELSE "REGISTERED")
                \o " state.")

NotYetEligibleError == runtime_error("Can't yet activate, please wait longer.")

(* ------------------------------------------------------------------ *)
(* The daemon.                                                         *)

\* Transaction ids and name_new secrets the daemon hands out, in order.
TxIdOf(n) == "tx" \o ToString(n)
RandOf(n) == "rand" \o ToString(n)

\* Depths at which a transaction is looked at: unconfirmed, one block, one
\* short of FIRSTUPDATE_DELAY, and FIRSTUPDATE_DELAY.
Depths == {0, 1, FIRSTUPDATE_DELAY - 1, FIRSTUPDATE_DELAY}

NextDepth(d) == CHOOSE e \in Depths : e > d /\ \A g \in Depths : g > d => e <= g

\* Number of transactions the wallet holds.
NumTx == Cardinality(DOMAIN ledger)

\* One RPC call as the daemon sees it.
RpcCall(method, args) == [method |-> method, args |-> args]

(* ------------------------------------------------------------------ *)
(* NameRegistration.  An operation is an operator from the object (and *)
(* what the RPC connection does) to the object afterwards, the         *)
(* exception thrown, the value returned and the RPC calls issued.      *)

\* NameRegistration (JsonRpc& r): state(NOT_STARTED), strings empty.
NewNameRegistration ==
  [state |-> NOT_STARTED, name |-> "", value |-> "",
   rand |-> "", tx |-> "", txActivation |-> ""]

Result(obj, err, ret, calls) ==
  [obj |-> obj, err |-> err, ret |-> ret, calls |-> calls]

\* A Name object as handed to registerName.
\* Name (): not initialised.
NoName == [initialised |-> FALSE, name |-> "", ex |-> FALSE, expired |-> FALSE]

\* queryName (n): the name is absent, held, or held and expired.
Name(n, ex, expired) ==
  [initialised |-> TRUE, name |-> n, ex |-> ex, expired |-> expired]

\* The Name objects a caller hands to registerName.
NameObjects ==
  { Name("d/a", FALSE, FALSE), Name("d/a", TRUE, FALSE),
    Name("d/a", TRUE, TRUE), Name("d/b", FALSE, FALSE), NoName }

\* getNumberOfConfirmations that takes a transaction the wallet does not
\* know for an unconfirmed one.
getNumberOfConfirmations_UnknownIsUnconfirmed(txid, f) ==
  LET call == RpcCall("gettransaction", <<txid>>) IN
  IF f # "ok" THEN [err |-> RpcFailure(f), n |-> 0, calls |-> <<call>>]
  ELSE IF txid \notin DOMAIN ledger
    THEN [err |-> NoError, n |-> 0, calls |-> <<call>>]
  ELSE [err |-> NoError, n |-> ledger[txid], calls |-> <<call>>]

\* f: what executeRpc ("gettransaction") does.  n is the count returned;
\* the wallet's depths are never negative, so asInt () to unsigned keeps them.
getNumberOfConfirmations(txid, f) ==
  LET call == RpcCall("gettransaction", <<txid>>) IN
  IF f # "ok" THEN [err |-> RpcFailure(f), n |-> 0, calls |-> <<call>>]
  ELSE IF txid \notin DOMAIN ledger
    THEN [err |-> RpcError(-4), n |-> 0, calls |-> <<call>>]
  ELSE [err |-> NoError, n |-> ledger[txid], calls |-> <<call>>]

\* registerName that turns away every existing name, expired or not.
registerName_IgnoresExpiry(obj, nm, f, newTx, newRand) ==
  IF obj.state # NOT_STARTED
    THEN Result(obj,
                runtime_error("Can registerName() only in NOT_STARTED state."),
                FALSE, <<>>)
  ELSE IF ~nm.initialised
    THEN Result(obj, runtime_error("Name is not yet initialised."),
                FALSE, <<>>)
  ELSE IF nm.ex
    THEN Result(obj, NameAlreadyReserved(nm.name), FALSE, <<>>)
  ELSE
    LET named == [obj EXCEPT !.name = nm.name]
        call == RpcCall("name_new", <<nm.name>>)
    IN IF f # "ok"
         THEN Result(named, RpcFailure(f), FALSE, <<call>>)
         ELSE Result([named EXCEPT !.rand = newRand, !.tx = newTx,
                                   !.value = "", !.state = REGISTERED],
                     NoError, FALSE, <<call>>)

\* registerName that reads the answer of name_new in the wrong order.
registerName_SwappedPair(obj, nm, f, newTx, newRand) ==
  IF obj.state # NOT_STARTED
    THEN Result(obj,
                runtime_error("Can registerName() only in NOT_STARTED state."),
                FALSE, <<>>)
  ELSE IF ~nm.initialised
    THEN Result(obj, runtime_error("Name is not yet initialised."),
                FALSE, <<>>)
  ELSE IF nm.ex /\ ~nm.expired
    THEN Result(obj, NameAlreadyReserved(nm.name), FALSE, <<>>)
  ELSE
    LET named == [obj EXCEPT !.name = nm.name]
        call == RpcCall("name_new", <<nm.name>>)
    IN IF f # "ok"
         THEN Result(named, RpcFailure(f), FALSE, <<call>>)
         ELSE Result([named EXCEPT !.rand = newTx, !.tx = newRand,
                                   !.value = "", !.state = REGISTERED],
                     NoError, FALSE, <<call>>)

\* registerName without its check of the state.
registerName_NoStateCheck(obj, nm, f, newTx, newRand) ==
  IF ~nm.initialised
    THEN Result(obj, runtime_error("Name is not yet initialised."),
                FALSE, <<>>)
  ELSE IF nm.ex /\ ~nm.expired
    THEN Result(obj, NameAlreadyReserved(nm.name), FALSE, <<>>)
  ELSE
    LET named == [obj EXCEPT !.name = nm.name]
        call == RpcCall("name_new", <<nm.name>>)
    IN IF f # "ok"
         THEN Result(named, RpcFailure(f), FALSE, <<call>>)
         ELSE Result([named EXCEPT !.rand = newRand, !.tx = newTx,
                                   !.value = "", !.state = REGISTERED],
                     NoError, FALSE, <<call>>)

\* f: what executeRpc ("name_new") does; newTx, newRand: its answer.
registerName(obj, nm, f, newTx, newRand) ==
  IF obj.state # NOT_STARTED
    THEN Result(obj,
                runtime_error("Can registerName() only in NOT_STARTED state."),
                FALSE, <<>>)
  ELSE IF ~nm.initialised
    THEN Result(obj, runtime_error("Name is not yet initialised."),
                FALSE, <<>>)
  ELSE IF nm.ex /\ ~nm.expired
    THEN Result(obj, NameAlreadyReserved(nm.name), FALSE, <<>>)
  ELSE
    LET named == [obj EXCEPT !.name = nm.name]
        call == RpcCall("name_new", <<nm.name>>)
    IN IF f # "ok"
         THEN Result(named, RpcFailure(f), FALSE, <<call>>)
         ELSE Result([named EXCEPT !.rand = newRand, !.tx = newTx,
                                   !.value = "", !.state = REGISTERED],
                     NoError, FALSE, <<call>>)

\* setValue without its check of the state.
setValue_NoStateCheck(obj, val) ==
  Result([obj EXCEPT !.value = val], NoError, FALSE, <<>>)

\* setValue that writes the name where the value belongs.
setValue_IntoName(obj, val) ==
  IF obj.state # REGISTERED
    THEN Result(obj,
                runtime_error("Can setValue() only in REGISTERED state."),
                FALSE, <<>>)
    ELSE Result([obj EXCEPT !.name = val], NoError, FALSE, <<>>)

setValue(obj, val) ==
  IF obj.state # REGISTERED
    THEN Result(obj,
                runtime_error("Can setValue() only in REGISTERED state."),
                FALSE, <<>>)
    ELSE Result([obj EXCEPT !.value = val], NoError, FALSE, <<>>)

\* canActivate that asks for more than FIRSTUPDATE_DELAY confirmations.
canActivate_OffByOne(obj, f) ==
  IF obj.state # REGISTERED
    THEN Result(obj, NoError, FALSE, <<>>)
    ELSE LET c == getNumberOfConfirmations(obj.tx, f) IN
         IF c.err # NoError
           THEN Result(obj, c.err, FALSE, c.calls)
           ELSE Result(obj, NoError, c.n > FIRSTUPDATE_DELAY, c.calls)

\* canActivate that looks the transaction up before it looks at the state.
canActivate_LookupFirst(obj, f) ==
  LET c == getNumberOfConfirmations(obj.tx, f) IN
  IF c.err # NoError
    THEN Result(obj, c.err, FALSE, c.calls)
    ELSE Result(obj, NoError,
                obj.state = REGISTERED /\ c.n >= FIRSTUPDATE_DELAY, c.calls)

canActivate(obj, f) ==
  IF obj.state # REGISTERED
    THEN Result(obj, NoError, FALSE, <<>>)
    ELSE LET c == getNumberOfConfirmations(obj.tx, f) IN
         IF c.err # NoError
           THEN Result(obj, c.err, FALSE, c.calls)
           ELSE Result(obj, NoError, c.n >= FIRSTUPDATE_DELAY, c.calls)

\* activate that does not ask canActivate.
activate_NoEligibilityCheck(obj, f1, f2, newTx) ==
  IF obj.state # REGISTERED
    THEN Result(obj,
                runtime_error("Can activate() only in REGISTERED state."),
                FALSE, <<>>)
  ELSE
    LET call == RpcCall("name_firstupdate",
                        <<obj.name, obj.rand, obj.tx, obj.value>>)
    IN IF f2 # "ok"
         THEN Result(obj, RpcFailure(f2), FALSE, <<call>>)
         ELSE Result([obj EXCEPT !.txActivation = newTx, !.state = ACTIVATED],
                     NoError, FALSE, <<call>>)

\* activate that moves to ACTIVATED before name_firstupdate has answered.
activate_CommitsBeforeCall(obj, f1, f2, newTx) ==
  IF obj.state # REGISTERED
    THEN Result(obj,
                runtime_error("Can activate() only in REGISTERED state."),
                FALSE, <<>>)
  ELSE
    LET can == canActivate(obj, f1)
        call == RpcCall("name_firstupdate",
                        <<obj.name, obj.rand, obj.tx, obj.value>>)
    IN IF can.err # NoError
         THEN Result(obj, can.err, FALSE, can.calls)
       ELSE IF ~can.ret
         THEN Result(obj,
                     runtime_error("Can't yet activate, please wait longer."),
                     FALSE, can.calls)
       ELSE IF f2 # "ok"
         THEN Result([obj EXCEPT !.state = ACTIVATED],
                     RpcFailure(f2), FALSE, Append(can.calls, call))
       ELSE Result([obj EXCEPT !.txActivation = newTx, !.state = ACTIVATED],
                   NoError, FALSE, Append(can.calls, call))

\* activate that reports a too early call as a call in the wrong state.
activate_OneMessage(obj, f1, f2, newTx) ==
  IF obj.state # REGISTERED
    THEN Result(obj,
                runtime_error("Can activate() only in REGISTERED state."),
                FALSE, <<>>)
  ELSE
    LET can == canActivate(obj, f1)
        call == RpcCall("name_firstupdate",
                        <<obj.name, obj.rand, obj.tx, obj.value>>)
    IN IF can.err # NoError
         THEN Result(obj, can.err, FALSE, can.calls)
       ELSE IF ~can.ret
         THEN Result(obj,
                     runtime_error("Can activate() only in REGISTERED state."),
                     FALSE, can.calls)
       ELSE IF f2 # "ok"
         THEN Result(obj, RpcFailure(f2), FALSE, Append(can.calls, call))
       ELSE Result([obj EXCEPT !.txActivation = newTx, !.state = ACTIVATED],
                   NoError, FALSE, Append(can.calls, call))

\* activate that hands name_firstupdate the value where the transaction
\* id belongs.
activate_ValueBeforeTx(obj, f1, f2, newTx) ==
  IF obj.state # REGISTERED
    THEN Result(obj,
                runtime_error("Can activate() only in REGISTERED state."),
                FALSE, <<>>)
  ELSE
    LET can == canActivate(obj, f1)
        call == RpcCall("name_firstupdate",
                        <<obj.name, obj.rand, obj.value, obj.tx>>)
    IN IF can.err # NoError
         THEN Result(obj, can.err, FALSE, can.calls)
       ELSE IF ~can.ret
         THEN Result(obj,
                     runtime_error("Can't yet activate, please wait longer."),
                     FALSE, can.calls)
       ELSE IF f2 # "ok"
         THEN Result(obj, RpcFailure(f2), FALSE, Append(can.calls, call))
       ELSE Result([obj EXCEPT !.txActivation = newTx, !.state = ACTIVATED],
                   NoError, FALSE, Append(can.calls, call))

\* f1: what the confirmation lookup does; f2: what name_firstupdate does,
\* newTx its answer.
activate(obj, f1, f2, newTx) ==
  IF obj.state # REGISTERED
    THEN Result(obj,
                runtime_error("Can activate() only in REGISTERED state."),
                FALSE, <<>>)
  ELSE
    LET can == canActivate(obj, f1)
        call == RpcCall("name_firstupdate",
                        <<obj.name, obj.rand, obj.tx, obj.value>>)
    IN IF can.err # NoError
         THEN Result(obj, can.err, FALSE, can.calls)
       ELSE IF ~can.ret
         THEN Result(obj,
                     runtime_error("Can't yet activate, please wait longer."),
                     FALSE, can.calls)
       ELSE IF f2 # "ok"
         THEN Result(obj, RpcFailure(f2), FALSE, Append(can.calls, call))
       ELSE Result([obj EXCEPT !.txActivation = newTx, !.state = ACTIVATED],
                   NoError, FALSE, Append(can.calls, call))

\* isFinished that takes an unconfirmed name_firstupdate for a finished one.
isFinished_Unconfirmed(obj, f) ==
  IF obj.state # ACTIVATED
    THEN Result(obj, NoError, FALSE, <<>>)
    ELSE LET c == getNumberOfConfirmations(obj.txActivation, f) IN
         IF c.err # NoError
           THEN Result(obj, c.err, FALSE, c.calls)
           ELSE Result(obj, NoError, c.n >= 0, c.calls)

\* isFinished that looks at the name_new transaction.
isFinished_OfReservation(obj, f) ==
  IF obj.state # ACTIVATED
    THEN Result(obj, NoError, FALSE, <<>>)
    ELSE LET c == getNumberOfConfirmations(obj.tx, f) IN
         IF c.err # NoError
           THEN Result(obj, c.err, FALSE, c.calls)
           ELSE Result(obj, NoError, c.n > 0, c.calls)

\* isFinished that waits for FIRSTUPDATE_DELAY further blocks.
isFinished_AfterDelay(obj, f) ==
  IF obj.state # ACTIVATED
    THEN Result(obj, NoError, FALSE, <<>>)
    ELSE LET c == getNumberOfConfirmations(obj.txActivation, f) IN
         IF c.err # NoError
           THEN Result(obj, c.err, FALSE, c.calls)
           ELSE Result(obj, NoError, c.n > FIRSTUPDATE_DELAY, c.calls)

isFinished(obj, f) ==
  IF obj.state # ACTIVATED
    THEN Result(obj, NoError, FALSE, <<>>)
    ELSE LET c == getNumberOfConfirmations(obj.txActivation, f) IN
         IF c.err # NoError
           THEN Result(obj, c.err, FALSE, c.calls)
           ELSE Result(obj, NoError, c.n > 0, c.calls)

(* ------------------------------------------------------------------ *)
(* Stream operators.  A JSON object is a function from its member      *)
(* names to their values; a missing member reads as null.              *)

\* Text that is not JSON at all.
NotJson == [parseError |-> TRUE]

JsonParseError ==
  [cls |-> "JsonRpc::JsonParseError", what |-> "", code |-> 0, name |-> ""]

\* JsonRpc::readJson: the parsed value, or JsonParseError.
readJson(text) ==
  IF "parseError" \in DOMAIN text
    THEN [err |-> JsonParseError, val |-> <<>>]
    ELSE [err |-> NoError, val |-> text]

\* Json::Value::operator[] followed by asString () / asInt ().
asString(json, key) == IF key \in DOMAIN json THEN json[key] ELSE ""
asInt(json, key) == IF key \in DOMAIN json THEN json[key] ELSE 0

\* operator<< that does not save the value of a registered process.
encode_WithoutValue(obj) ==
  IF obj.state = REGISTERED
    THEN [err |-> NoError,
          out |-> [type |-> "NameRegistration", version |-> 1,
                   name |-> obj.name, state |-> "registered",
                   rand |-> obj.rand, tx |-> obj.tx]]
  ELSE IF obj.state = ACTIVATED
    THEN [err |-> NoError,
          out |-> [type |-> "NameRegistration", version |-> 1,
                   name |-> obj.name, state |-> "activated",
                   txActivation |-> obj.txActivation]]
  ELSE [err |-> runtime_error("Wrong state for saving of NameRegistration."),
        out |-> NotJson]

\* operator<< (std::ostream&, const NameRegistration&): out is the text
\* written, meaningful when nothing is thrown.
encode(obj) ==
  IF obj.state = REGISTERED
    THEN [err |-> NoError,
          out |-> [type |-> "NameRegistration", version |-> 1,
                   name |-> obj.name, state |-> "registered",
                   value |-> obj.value, rand |-> obj.rand, tx |-> obj.tx]]
  ELSE IF obj.state = ACTIVATED
    THEN [err |-> NoError,
          out |-> [type |-> "NameRegistration", version |-> 1,
                   name |-> obj.name, state |-> "activated",
                   txActivation |-> obj.txActivation]]
  ELSE [err |-> runtime_error("Wrong state for saving of NameRegistration."),
        out |-> NotJson]

\* operator>> that restores the state of a registered process without its
\* reservation.
decode_SkipsReservation(obj, text) ==
  LET in == readJson(text)
      inVal == in.val
      named == [obj EXCEPT !.name = asString(inVal, "name")]
      state == asString(inVal, "state")
  IN IF in.err # NoError
       THEN Result(obj, in.err, FALSE, <<>>)
     ELSE IF asString(inVal, "type") # "NameRegistration"
             \/ asInt(inVal, "version") # 1
       THEN Result(obj,
                   runtime_error("Wrong JSON object found, expected version 1 NameRegistration."),
                   FALSE, <<>>)
     ELSE IF state = "registered"
       THEN Result([named EXCEPT !.state = REGISTERED,
                                 !.value = asString(inVal, "value")],
                   NoError, FALSE, <<>>)
     ELSE IF state = "activated"
       THEN Result([named EXCEPT !.state = ACTIVATED,
                                 !.txActivation = asString(inVal, "txActivation")],
                   NoError, FALSE, <<>>)
     ELSE Result(named,
                 runtime_error("Invalid state found in the JSON data of NameRegistration."),
                 FALSE, <<>>)

\* operator>> (std::istream&, NameRegistration&)
decode(obj, text) ==
  LET in == readJson(text)
      inVal == in.val
      named == [obj EXCEPT !.name = asString(inVal, "name")]
      state == asString(inVal, "state")
  IN IF in.err # NoError
       THEN Result(obj, in.err, FALSE, <<>>)
     ELSE IF asString(inVal, "type") # "NameRegistration"
             \/ asInt(inVal, "version") # 1
       THEN Result(obj,
                   runtime_error("Wrong JSON object found, expected version 1 NameRegistration."),
                   FALSE, <<>>)
     ELSE IF state = "registered"
       THEN Result([named EXCEPT !.state = REGISTERED,
                                 !.value = asString(inVal, "value"),
                                 !.rand = asString(inVal, "rand"),
                                 !.tx = asString(inVal, "tx")],
                   NoError, FALSE, <<>>)
     ELSE IF state = "activated"
       THEN Result([named EXCEPT !.state = ACTIVATED,
                                 !.txActivation = asString(inVal, "txActivation")],
                   NoError, FALSE, <<>>)
     ELSE Result(named,
                 runtime_error("Invalid state found in the JSON data of NameRegistration."),
                 FALSE, <<>>)

\* State files that did not come from operator<< of this run: not JSON,
\* another object type, a later version, an unknown state, and a
\* registration whose transaction the wallet does not know.
ForeignTexts ==
  { NotJson,
    [type |-> "RegistrationManager", version |-> 1],
    [type |-> "NameRegistration", version |-> 2, name |-> "d/b",
     state |-> "registered", value |-> "v", rand |-> "randX", tx |-> "txX"],
    [type |-> "NameRegistration", version |-> 1, name |-> "d/b",
     state |-> "finished"],
    [type |-> "NameRegistration", version |-> 1, name |-> "d/b",
     state |-> "registered", value |-> "v", rand |-> "randX", tx |-> "txX"] }

(* ------------------------------------------------------------------ *)
(* The caller: one action per call on the object.                      *)

Last(op, nm, val, r) ==
  [op |-> op, nm |-> nm, val |-> val,
   err |-> r.err, ret |-> r.ret, calls |-> r.calls]

NoResult == Result(NewNameRegistration, NoError, FALSE, <<>>)

\* WalletUnlocker (CoinInterface& n): unlocked (false).
NewWalletUnlocker == [unlocked |-> FALSE]

\* registered: a registerName call on this object has succeeded.
NewHist == [registered |-> FALSE]

\* No update is running.
Idle == [at |-> "idle", i |-> 0]

Init ==
  /\ reg = NewNameRegistration
  /\ ledger = <<>>
  /\ stream = NotJson
  /\ last = Last("construct", NoName, "", NoResult)
  /\ hist = NewHist
  /\ names = <<>>
  /\ twin = NewNameRegistration
  /\ unlocker = NewWalletUnlocker
  /\ replies = <<>>
  /\ heap = 0
  /\ pc = Idle

\* NameRegistration reg(rpc): a new run of the program starts with a
\* fresh object; the daemon and the state file live on.
Construct ==
  /\ reg' = NewNameRegistration
  /\ hist' = NewHist
  /\ last' = Last("construct", NoName, "", NoResult)
  /\ UNCHANGED <<ledger, stream, names, twin, unlocker, replies, heap, pc>>

\* The daemon creates at most MaxTx transactions.
Answers(f) == f = "ok" => NumTx < MaxTx

CallRegisterName ==
  \E nm \in NameObjects, f \in RpcOutcomes :
    LET newTx == TxIdOf(NumTx + 1)
        r == registerName(reg, nm, f, newTx, RandOf(NumTx + 1))
    IN /\ Answers(f)
       /\ reg' = r.obj
       /\ last' = Last("registerName", nm, "", r)
       /\ ledger' = IF r.err = NoError THEN ledger @@ (newTx :> 0) ELSE ledger
       /\ hist' = IF r.err = NoError
                    THEN [hist EXCEPT !.registered = TRUE] ELSE hist
       /\ UNCHANGED <<stream, names, twin, unlocker, replies, heap, pc>>

CallSetValue ==
  \E val \in Values :
    LET r == setValue(reg, val)
    IN /\ reg' = r.obj
       /\ last' = Last("setValue", NoName, val, r)
       /\ UNCHANGED <<ledger, stream, hist, names, twin, unlocker, replies, heap, pc>>

CallCanActivate ==
  \E f \in RpcOutcomes :
    LET r == canActivate(reg, f)
    IN /\ reg' = r.obj
       /\ last' = Last("canActivate", NoName, "", r)
       /\ UNCHANGED <<ledger, stream, hist, names, twin, unlocker, replies, heap, pc>>

CallActivate ==
  \E f1 \in RpcOutcomes, f2 \in RpcOutcomes :
    LET newTx == TxIdOf(NumTx + 1)
        r == activate(reg, f1, f2, newTx)
    IN /\ Answers(f2)
       /\ reg' = r.obj
       /\ last' = Last("activate", NoName, "", r)
       /\ ledger' = IF r.err = NoError THEN ledger @@ (newTx :> 0) ELSE ledger
       /\ UNCHANGED <<stream, hist, names, twin, unlocker, replies, heap, pc>>

CallIsFinished ==
  \E f \in RpcOutcomes :
    LET r == isFinished(reg, f)
    IN /\ reg' = r.obj
       /\ last' = Last("isFinished", NoName, "", r)
       /\ UNCHANGED <<ledger, stream, hist, names, twin, unlocker, replies, heap, pc>>

\* out << reg
Encode ==
  LET e == encode(reg)
  IN /\ stream' = IF e.err = NoError THEN e.out ELSE stream
     /\ last' = Last("encode", NoName, "", Result(reg, e.err, FALSE, <<>>))
     /\ UNCHANGED <<reg, ledger, hist, names, twin, unlocker, replies, heap, pc>>

\* in >> reg
Decode ==
  \E text \in {stream} \cup ForeignTexts :
    LET r == decode(reg, text)
    IN /\ reg' = r.obj
       /\ last' = Last("decode", NoName, "", r)
       /\ UNCHANGED <<ledger, stream, hist, names, twin, unlocker, replies, heap, pc>>

\* Blocks are found: a transaction of the wallet gets deeper in the chain.
\* The caller looks at it at the depths of Depths only.
Mine ==
  \E t \in DOMAIN ledger :
    /\ ledger[t] < FIRSTUPDATE_DELAY
    /\ ledger' = [ledger EXCEPT ![t] = NextDepth(ledger[t])]
    /\ last' = Last("mine", NoName, "", NoResult)
    /\ UNCHANGED <<reg, stream, hist, names, twin, unlocker, replies, heap, pc>>

Next ==
  \/ Construct
  \/ CallRegisterName
  \/ CallSetValue
  \/ CallCanActivate
  \/ CallActivate
  \/ CallIsFinished
  \/ Encode
  \/ Decode
  \/ Mine

Spec == Init /\ [][Next]_vars

(* ------------------------------------------------------------------ *)
(* A process whose state file names transactions that are not in the   *)
(* wallet the daemon runs on.                                          *)

\* State files of another wallet: a registration and an activation whose
\* transactions this wallet does not know.
StrayTexts ==
  { [type |-> "NameRegistration", version |-> 1, name |-> "d/b",
     state |-> "registered", value |-> "v", rand |-> "randX", tx |-> "txX"],
    [type |-> "NameRegistration", version |-> 1, name |-> "d/b",
     state |-> "activated", txActivation |-> "txY"] }

\* in >> reg, from such a file
DecodeStray ==
  \E text \in StrayTexts :
    LET r == decode(reg, text)
    IN /\ reg' = r.obj
       /\ last' = Last("decode", NoName, "", r)
       /\ UNCHANGED <<ledger, stream, hist, names, twin, unlocker, replies, heap, pc>>

StrayNext ==
  \/ Construct
  \/ CallRegisterName
  \/ DecodeStray
  \/ CallCanActivate
  \/ CallActivate
  \/ CallIsFinished
  \/ Mine

StraySpec == Init /\ [][StrayNext]_vars

(* ------------------------------------------------------------------ *)
(* CoinInterface and NameInterface: addresses, signatures, the wallet  *)
(* unlocker and the lookup of names.  reply is what the daemon answers *)
(* to a call: NoError for a result, or the RpcError executeRpc throws. *)

UNLOCK_SECONDS == 3600

\* The error codes of the daemon that the interfaces look at, and -1 for
\* every other one.
RpcCodes == {-1, -3, -4, -5, -13, -14}

DaemonReplies == {NoError} \cup {RpcError(c) : c \in RpcCodes}

NoPrivateKey(a) ==
  [cls |-> "CoinInterface::NoPrivateKey",
   what |-> "You don't have the private key of " \o a
              \o " in order to sign messages with that address.",
   code |-> 0, name |-> ""]

UnlockFailure(msg) ==
  [cls |-> "CoinInterface::UnlockFailure", what |-> msg,
   code |-> 0, name |-> ""]

\* Address (): not valid, not mine.
NoAddress == [addr |-> "", valid |-> FALSE, mine |-> FALSE]

\* Address (JsonRpc& r, const std::string& a), as queryAddress returns it:
\* isvalid and ismine are what validateaddress answers.
queryAddress(a, isvalid, ismine, reply) ==
  LET call == RpcCall("validateaddress", <<a>>)
  IN IF reply # NoError
       THEN Result(NoAddress, reply, FALSE, <<call>>)
       ELSE Result([addr |-> a, valid |-> isvalid,
                    mine |-> isvalid /\ ismine],
                   NoError, FALSE, <<call>>)

\* verifySignature that takes every RpcError for a signature that does not
\* match.
verifySignature_CatchesAll(self, msg, sig, reply, res) ==
  IF ~self.valid
    THEN Result(self, NoError, FALSE, <<>>)
  ELSE Result(self, NoError, reply = NoError /\ res,
              <<RpcCall("verifymessage", <<self.addr, sig, msg>>)>>)

\* Address::verifySignature: res is what verifymessage answers.
verifySignature(self, msg, sig, reply, res) ==
  IF ~self.valid
    THEN Result(self, NoError, FALSE, <<>>)
  ELSE
    LET call == RpcCall("verifymessage", <<self.addr, sig, msg>>)
    IN IF reply = NoError
         THEN Result(self, NoError, res, <<call>>)
       ELSE IF reply.code = -5
         THEN Result(self, NoError, FALSE, <<call>>)
       ELSE Result(self, reply, FALSE, <<call>>)

\* Address::signMessage: what is returned is the signature.
signMessage(self, msg, reply) ==
  IF ~self.valid
    THEN Result(self, runtime_error("Can't sign with invalid address."),
                "", <<>>)
  ELSE
    LET call == RpcCall("signmessage", <<self.addr, msg>>)
    IN IF reply = NoError
         THEN Result(self, NoError, "sig(" \o self.addr \o "," \o msg \o ")",
                     <<call>>)
       ELSE IF reply.code = -13
         THEN Result(self, runtime_error("Need to unlock the wallet first."),
                     "", <<call>>)
       ELSE IF reply.code = -3
         THEN Result(self, NoPrivateKey(self.addr), "", <<call>>)
       ELSE Result(self, reply, "", <<call>>)

\* CoinInterface::needWalletPassphrase: locked is what getinfo tells.
needWalletPassphrase(reply, locked) ==
  LET call == RpcCall("getinfo", <<>>)
  IN IF reply # NoError
       THEN [err |-> reply, ret |-> FALSE, calls |-> <<call>>]
       ELSE [err |-> NoError, ret |-> locked, calls |-> <<call>>]

\* unlock that counts the wallet as unlocked once it has sent the passphrase,
\* whatever the answer.
unlock_MarksBeforeCall(self, passphrase, locked, rInfo, rLock, rPass) ==
  IF self.unlocked
    THEN Result(self, runtime_error("Wallet is already unlocked!"),
                FALSE, <<>>)
  ELSE
    LET needPwd == needWalletPassphrase(rInfo, locked)
        lock == RpcCall("walletlock", <<>>)
        pass == RpcCall("walletpassphrase", <<passphrase, UNLOCK_SECONDS>>)
        marked == [self EXCEPT !.unlocked = TRUE]
    IN IF needPwd.err # NoError
         THEN Result(self, needPwd.err, FALSE, needPwd.calls)
       ELSE IF ~needPwd.ret
         THEN Result(self, NoError, FALSE, needPwd.calls)
       ELSE IF passphrase = ""
         THEN Result(self, UnlockFailure("Wallet passphrase cannot be empty."),
                     FALSE, needPwd.calls)
       ELSE IF rLock # NoError
         THEN Result(self, rLock, FALSE, needPwd.calls \o <<lock>>)
       ELSE IF rPass = NoError
         THEN Result(marked, NoError, FALSE, needPwd.calls \o <<lock, pass>>)
       ELSE IF rPass.code = -14
         THEN Result(marked, UnlockFailure("Wrong wallet passphrase."), FALSE,
                     needPwd.calls \o <<lock, pass>>)
       ELSE Result(marked, rPass, FALSE, needPwd.calls \o <<lock, pass>>)

\* WalletUnlocker::unlock: rInfo, rLock and rPass are the answers to
\* getinfo, walletlock and walletpassphrase.
unlock(self, passphrase, locked, rInfo, rLock, rPass) ==
  IF self.unlocked
    THEN Result(self, runtime_error("Wallet is already unlocked!"),
                FALSE, <<>>)
  ELSE
    LET needPwd == needWalletPassphrase(rInfo, locked)
        lock == RpcCall("walletlock", <<>>)
        pass == RpcCall("walletpassphrase", <<passphrase, UNLOCK_SECONDS>>)
    IN IF needPwd.err # NoError
         THEN Result(self, needPwd.err, FALSE, needPwd.calls)
       ELSE IF ~needPwd.ret
         THEN Result(self, NoError, FALSE, needPwd.calls)
       ELSE IF passphrase = ""
         THEN Result(self, UnlockFailure("Wallet passphrase cannot be empty."),
                     FALSE, needPwd.calls)
       ELSE IF rLock # NoError
         THEN Result(self, rLock, FALSE, needPwd.calls \o <<lock>>)
       ELSE IF rPass = NoError
         THEN Result([self EXCEPT !.unlocked = TRUE], NoError, FALSE,
                     needPwd.calls \o <<lock, pass>>)
       ELSE IF rPass.code = -14
         THEN Result(self, UnlockFailure("Wrong wallet passphrase."), FALSE,
                     needPwd.calls \o <<lock, pass>>)
       ELSE Result(self, rPass, FALSE, needPwd.calls \o <<lock, pass>>)

\* NamecoinInterface::WalletUnlocker (nc, passphrase), the unlocker that
\* unlocks when it is constructed.  A constructor that throws leaves no
\* object, and no destructor runs.
WalletUnlocker(passphrase, locked, rInfo, rLock, rPass) ==
  LET needPwd == needWalletPassphrase(rInfo, locked)
      lock == RpcCall("walletlock", <<>>)
      pass == RpcCall("walletpassphrase", <<passphrase, UNLOCK_SECONDS>>)
  IN IF needPwd.err # NoError
       THEN Result(NewWalletUnlocker, needPwd.err, FALSE, needPwd.calls)
     ELSE IF ~needPwd.ret
       THEN Result([unlocked |-> FALSE], NoError, FALSE, needPwd.calls)
     ELSE IF rLock # NoError
       THEN Result(NewWalletUnlocker, rLock, FALSE, needPwd.calls \o <<lock>>)
     ELSE IF rPass = NoError
       THEN Result([unlocked |-> TRUE], NoError, FALSE,
                   needPwd.calls \o <<lock, pass>>)
     ELSE IF rPass.code = -14
       THEN Result(NewWalletUnlocker, UnlockFailure("Wrong wallet passphrase."),
                   FALSE, needPwd.calls \o <<lock, pass>>)
     ELSE Result(NewWalletUnlocker, rPass, FALSE,
                 needPwd.calls \o <<lock, pass>>)

\* Name (n, nc, rpc), as queryName returns it: rShow and rAddr are the
\* answers to name_show and to the validateaddress of the name's address,
\* expired is what name_show tells.  Both calls are inside the try block.
queryName(n, expired, rShow, rAddr) ==
  LET show == RpcCall("name_show", <<n>>)
      a == queryAddress("N-owner", TRUE, FALSE, rAddr)
  IN IF rShow = NoError
       THEN IF a.err = NoError
              THEN Result(Name(n, TRUE, expired), NoError, FALSE,
                          <<show>> \o a.calls)
            ELSE IF a.err.code = -4
              THEN Result(Name(n, FALSE, FALSE), NoError, FALSE,
                          <<show>> \o a.calls)
            ELSE Result(NoName, a.err, FALSE, <<show>> \o a.calls)
     ELSE IF rShow.code = -4
       THEN Result(Name(n, FALSE, FALSE), NoError, FALSE, <<show>>)
     ELSE Result(NoName, rShow, FALSE, <<show>>)

NameNotFound(n) ==
  [cls |-> "NameInterface::NameNotFound", what |-> "Name not found: " \o n,
   code |-> 0, name |-> n]

\* What name_show answers for a name that exists: the members the
\* accessors of Name read from data.
NameShown(n, expired) ==
  [name |-> n, value |-> "value of " \o n, address |-> "N-owner",
   expires_in |-> IF expired THEN -1 ELSE 100,
   expired |-> IF expired THEN 1 ELSE 0]

\* Name::ensureInitialised and Name::ensureExists: the exception thrown,
\* NoError when they return.
ensureInitialised(nm) ==
  IF ~nm.initialised
    THEN runtime_error("Name is not yet initialised.") ELSE NoError

\* ensureExists that is content with an initialised name.
ensureExists_OnlyInitialised(nm) == ensureInitialised(nm)

ensureExists(nm) ==
  IF ~nm.ex THEN NameNotFound(nm.name) ELSE NoError

\* The accessors of Name: what they throw, and what they return when they
\* throw nothing.
Accessor(err, ret) == [err |-> err, ret |-> IF err = NoError THEN ret ELSE ""]

getName(nm) == Accessor(ensureInitialised(nm), nm.name)
exists(nm) == Accessor(ensureInitialised(nm), nm.ex)
getAddress(nm) ==
  Accessor(ensureExists(nm), NameShown(nm.name, nm.expired).address)
getStringValue(nm) ==
  Accessor(ensureExists(nm), NameShown(nm.name, nm.expired).value)
isExpired(nm) ==
  Accessor(ensureExists(nm), NameShown(nm.name, nm.expired).expired # 0)
getExpireCounter(nm) ==
  Accessor(ensureExists(nm), NameShown(nm.name, nm.expired).expires_in)

\* The Address objects a caller holds: one of the wallet, one of somebody
\* else, and a string that is no address.
AddressObjects ==
  { [addr |-> "N-mine", valid |-> TRUE, mine |-> TRUE],
    [addr |-> "N-other", valid |-> TRUE, mine |-> FALSE],
    [addr |-> "bogus", valid |-> FALSE, mine |-> FALSE] }

Passphrases == {"", "secret"}

\* The answers to the calls that were made, of the answers rs at hand.
Given(rs, r) == SubSeq(rs, 1, Len(r.calls))

\* One call of the interface: what it returned or threw, and what the
\* daemon answered.
InterfaceCall(op, nm, val, r, rs) ==
  /\ last' = Last(op, nm, val, r)
  /\ replies' = Given(rs, r)
  /\ UNCHANGED <<reg, ledger, stream, hist, names, twin, heap, pc>>

\* nc.queryName (n)
QueryName ==
  \E n \in {"d/a", "d/b"}, expired \in BOOLEAN,
     rShow \in DaemonReplies, rAddr \in DaemonReplies :
    LET r == queryName(n, expired, rShow, rAddr)
    IN /\ InterfaceCall("queryName", r.obj, n, r, <<rShow, rAddr>>)
       /\ UNCHANGED unlocker

\* nc.queryAddress (a)
QueryAddress ==
  \E a \in AddressObjects, reply \in DaemonReplies :
    LET r == queryAddress(a.addr, a.valid, a.mine, reply)
    IN /\ InterfaceCall("queryAddress", NoName, a.addr, r, <<reply>>)
       /\ UNCHANGED unlocker

\* addr.verifySignature (msg, sig)
VerifySignature ==
  \E a \in AddressObjects, reply \in DaemonReplies, res \in BOOLEAN :
    LET r == verifySignature(a, "msg", "sig", reply, res)
    IN /\ InterfaceCall("verifySignature", NoName, a.addr, r, <<reply>>)
       /\ UNCHANGED unlocker

\* addr.signMessage (msg)
SignMessage ==
  \E a \in AddressObjects, reply \in DaemonReplies :
    LET r == signMessage(a, "msg", reply)
    IN /\ InterfaceCall("signMessage", NoName, a.addr, r, <<reply>>)
       /\ UNCHANGED unlocker

\* unlocker.unlock (passphrase)
Unlock ==
  \E passphrase \in Passphrases, locked \in BOOLEAN,
     rInfo \in DaemonReplies, rLock \in DaemonReplies,
     rPass \in DaemonReplies :
    LET r == unlock(unlocker, passphrase, locked, rInfo, rLock, rPass)
    IN /\ InterfaceCall("unlock", NoName, passphrase, r,
                        <<rInfo, rLock, rPass>>)
       /\ unlocker' = r.obj

\* NamecoinInterface::WalletUnlocker unlock(nc, passphrase), in a scope
\* that holds no unlocked unlocker.
ConstructUnlocked ==
  \E passphrase \in Passphrases, locked \in BOOLEAN,
     rInfo \in DaemonReplies, rLock \in DaemonReplies,
     rPass \in DaemonReplies :
    LET r == WalletUnlocker(passphrase, locked, rInfo, rLock, rPass)
    IN /\ ~unlocker.unlocked
       /\ InterfaceCall("WalletUnlocker", NoName, passphrase, r,
                        <<rInfo, rLock, rPass>>)
       /\ unlocker' = r.obj

\* ~WalletUnlocker (), and the unlocker of the next run.
Relock ==
  \E reply \in DaemonReplies :
    LET calls == IF unlocker.unlocked
                   THEN <<RpcCall("walletlock", <<>>)>> ELSE <<>>
        r == Result(unlocker, IF unlocker.unlocked THEN reply ELSE NoError,
                    FALSE, calls)
    IN /\ InterfaceCall("~WalletUnlocker", NoName, "", r, <<reply>>)
       /\ unlocker' = NewWalletUnlocker

InterfaceNext ==
  \/ QueryName
  \/ QueryAddress
  \/ VerifySignature
  \/ SignMessage
  \/ Unlock
  \/ ConstructUnlocked
  \/ Relock

InterfaceSpec == Init /\ [][InterfaceNext]_vars

(* ------------------------------------------------------------------ *)
(* RegistrationManager: a list of NameRegistration objects.            *)

\* Number of entries a caller puts into one manager.
MaxNames == 2

\* Number of objects that may be allocated without being in the list.
MaxLeaked == 1

\* RegistrationManager (JsonRpc& r): names ().
NewRegistrationManager == <<>>

\* RegistrationManager::registerName that keeps the new object whatever
\* its registerName did.
RegistrationManager_registerName_KeepsFailed(list, nm, f, newTx, newRand) ==
  LET r == registerName(NewNameRegistration, nm, f, newTx, newRand)
  IN Result(Append(list, r.obj), r.err,
            IF r.err = NoError THEN Len(list) + 1 ELSE FALSE, r.calls)

\* RegistrationManager::registerName that puts the new object first and
\* returns the last one.
RegistrationManager_registerName_AtFront(list, nm, f, newTx, newRand) ==
  LET r == registerName(NewNameRegistration, nm, f, newTx, newRand)
  IN IF r.err # NoError
       THEN Result(list, r.err, FALSE, r.calls)
       ELSE Result(<<r.obj>> \o list, NoError, Len(list) + 1, r.calls)

\* RegistrationManager::registerName that refuses a name the list holds.
RegistrationManager_registerName_Unique(list, nm, f, newTx, newRand) ==
  LET r == registerName(NewNameRegistration, nm, f, newTx, newRand)
  IN IF \E i \in DOMAIN list : list[i].name = nm.name
       THEN Result(list, NameAlreadyReserved(nm.name), FALSE, <<>>)
     ELSE IF r.err # NoError
       THEN Result(list, r.err, FALSE, r.calls)
     ELSE Result(Append(list, r.obj), NoError, Len(list) + 1, r.calls)

\* RegistrationManager::registerName: the new object joins the list when
\* its registerName has returned.  What is returned is *names.back (),
\* here the place of that entry in the list.
RegistrationManager_registerName(list, nm, f, newTx, newRand) ==
  LET r == registerName(NewNameRegistration, nm, f, newTx, newRand)
  IN IF r.err # NoError
       THEN Result(list, r.err, FALSE, r.calls)
       ELSE Result(Append(list, r.obj), NoError, Len(list) + 1, r.calls)

\* The RPC call of update that throws: none, the lookup of canActivate,
\* the lookup inside activate, or name_firstupdate.
UpdateFailures == {"none", "canActivate", "recheck", "name_firstupdate"}

\* The loop of RegistrationManager::update from entry i on.  failAt is the
\* entry whose call fails, made the number of transactions created so far.
\* The loop touches every entry by itself, so what it leaves is what the
\* rest of the loop leaves with entry i as activate has left it.  can, act
\* and rest are drawn from sets of one element, which works each of them
\* out once; act is what activate does when canActivate has returned true.
RECURSIVE updateFrom(_, _, _, _, _)
updateFrom(list, i, failAt, kind, made) ==
  IF i > Len(list)
    THEN [obj |-> list, err |-> NoError, ret |-> FALSE, calls |-> <<>>,
          made |-> made]
  ELSE
    LET fails(k) == IF failAt = i /\ kind = k THEN "rpc" ELSE "ok"
        visit(can, act) ==
          IF can.err # NoError
            THEN [obj |-> list, err |-> can.err, ret |-> FALSE,
                  calls |-> can.calls, made |-> made]
          ELSE IF ~can.ret
            THEN CHOOSE out \in
                   {[rest EXCEPT !.calls = can.calls \o rest.calls] :
                      rest \in {updateFrom(list, i + 1, failAt, kind, made)}} :
                   TRUE
          ELSE IF act.err # NoError
            THEN [obj |-> list, err |-> act.err, ret |-> FALSE,
                  calls |-> can.calls \o act.calls, made |-> made]
          ELSE CHOOSE out \in
                 {[rest EXCEPT
                     !.obj = [rest.obj EXCEPT ![i] = act.obj],
                     !.calls = can.calls \o act.calls \o rest.calls] :
                    rest \in {updateFrom(list, i + 1, failAt, kind,
                                         made + 1)}} :
                 TRUE
    IN CHOOSE out \in
         {visit(can, act) :
            can \in {canActivate(list[i], fails("canActivate"))},
            act \in {activate(list[i], fails("recheck"),
                              fails("name_firstupdate"),
                              TxIdOf(NumTx + made + 1))}} :
         TRUE

\* update that starts behind the first entry.
update_SkipsFirst(list, failAt, kind) == updateFrom(list, 2, failAt, kind, 0)

\* update that undoes what it did when a later entry throws.
update_RollsBack(list, failAt, kind) ==
  LET r == updateFrom(list, 1, failAt, kind, 0)
  IN IF r.err = NoError THEN r ELSE [r EXCEPT !.obj = list]

\* RegistrationManager::update
update(list, failAt, kind) ==
  updateFrom(list, 1, failAt, kind, 0)

\* cleanUp that erases every ACTIVATED entry.
RECURSIVE cleanUpFrom_ErasesActivated(_, _, _, _)
cleanUpFrom_ErasesActivated(kept, rest, k, failAt) ==
  IF rest = <<>>
    THEN Result(kept, NoError, FALSE, <<>>)
  ELSE
    LET fin == isFinished(Head(rest), IF failAt = k THEN "rpc" ELSE "ok")
    IN IF fin.err # NoError
         THEN Result(kept \o rest, fin.err, FALSE, fin.calls)
       ELSE LET r == cleanUpFrom_ErasesActivated(
                       IF Head(rest).state = ACTIVATED
                         THEN kept ELSE Append(kept, Head(rest)),
                       Tail(rest), k + 1, failAt)
            IN [r EXCEPT !.calls = fin.calls \o r.calls]

\* cleanUp that steps over the entry behind an erased one.
RECURSIVE cleanUpFrom_SkipsAfterErase(_, _, _, _)
cleanUpFrom_SkipsAfterErase(kept, rest, k, failAt) ==
  IF rest = <<>>
    THEN Result(kept, NoError, FALSE, <<>>)
  ELSE
    LET fin == isFinished(Head(rest), IF failAt = k THEN "rpc" ELSE "ok")
    IN IF fin.err # NoError
         THEN Result(kept \o rest, fin.err, FALSE, fin.calls)
       ELSE IF fin.ret /\ Len(rest) >= 2
         THEN LET r == cleanUpFrom_SkipsAfterErase(
                         Append(kept, rest[2]), Tail(Tail(rest)), k + 2,
                         failAt)
              IN [r EXCEPT !.calls = fin.calls \o r.calls]
       ELSE LET r == cleanUpFrom_SkipsAfterErase(
                       IF fin.ret THEN kept ELSE Append(kept, Head(rest)),
                       Tail(rest), k + 1, failAt)
            IN [r EXCEPT !.calls = fin.calls \o r.calls]

\* The loop of RegistrationManager::cleanUp: kept are the entries passed
\* over, rest the entries from the iterator on, k the place of the first of
\* them in the list at the call.  fin and r are drawn from sets of one
\* element, which works each of them out once.
RECURSIVE cleanUpFrom(_, _, _, _)
cleanUpFrom(kept, rest, k, failAt) ==
  IF rest = <<>>
    THEN Result(kept, NoError, FALSE, <<>>)
  ELSE
    LET test(fin) ==
          IF fin.err # NoError
            THEN Result(kept \o rest, fin.err, FALSE, fin.calls)
          ELSE CHOOSE out \in
                 {[r EXCEPT !.calls = fin.calls \o r.calls] :
                    r \in {cleanUpFrom(IF fin.ret
                                         THEN kept
                                         ELSE Append(kept, Head(rest)),
                                       Tail(rest), k + 1, failAt)}} :
                 TRUE
    IN CHOOSE out \in
         {test(fin) :
            fin \in {isFinished(Head(rest),
                                IF failAt = k THEN "rpc" ELSE "ok")}} :
         TRUE

\* RegistrationManager::cleanUp
cleanUp(list, failAt) == cleanUpFrom(<<>>, list, 1, failAt)

\* What cleanUp returns.  NameRegistration.cpp defines void cleanUp (); the
\* class declares unsigned cleanUp () with "@return Number of elements
\* purged", and nmreg prints that number.
cleanUpCount(list, failAt) ==
  LET r == cleanUp(list, failAt)
  IN IF r.err = NoError THEN Len(list) - Len(r.obj) ELSE FALSE

\* operator<< (std::ostream&, const RegistrationManager&): every element is
\* the text operator<< writes for the entry.
encodeManager(list) ==
  LET texts == [i \in DOMAIN list |-> encode(list[i])]
      failed == {i \in DOMAIN list : texts[i].err # NoError}
  IN IF failed # {}
       THEN [err |-> texts[CHOOSE i \in failed : \A j \in failed : i <= j].err,
             out |-> NotJson]
       ELSE [err |-> NoError,
             out |-> [type |-> "RegistrationManager", version |-> 1,
                      elements |-> [i \in DOMAIN list |-> texts[i].out]]]

\* operator>> that puts the new object into the list before it reads the
\* element into it.
RECURSIVE loadFrom_PushesFirst(_, _)
loadFrom_PushesFirst(loaded, elements) ==
  IF elements = <<>>
    THEN Result(loaded, NoError, FALSE, <<>>)
  ELSE LET r == decode(NewNameRegistration, Head(elements))
       IN IF r.err # NoError
            THEN Result(Append(loaded, r.obj), r.err, FALSE, <<>>)
            ELSE loadFrom_PushesFirst(Append(loaded, r.obj), Tail(elements))

\* The loop of operator>> over the elements: every element is read into a
\* new object that joins the list when the read has returned.
RECURSIVE loadFrom(_, _)
loadFrom(loaded, elements) ==
  IF elements = <<>>
    THEN Result(loaded, NoError, FALSE, <<>>)
  ELSE LET r == decode(NewNameRegistration, Head(elements))
       IN IF r.err # NoError
            THEN Result(loaded, r.err, FALSE, <<>>)
            ELSE loadFrom(Append(loaded, r.obj), Tail(elements))

\* operator>> that puts every object it reads at the front of the list.
RECURSIVE loadFrom_AtFront(_, _)
loadFrom_AtFront(loaded, elements) ==
  IF elements = <<>>
    THEN Result(loaded, NoError, FALSE, <<>>)
  ELSE LET r == decode(NewNameRegistration, Head(elements))
       IN IF r.err # NoError
            THEN Result(loaded, r.err, FALSE, <<>>)
            ELSE loadFrom_AtFront(<<r.obj>> \o loaded, Tail(elements))

decodeManager_AtFront(list, text) ==
  LET in == readJson(text)
      inVal == in.val
  IN IF in.err # NoError
       THEN Result(list, in.err, FALSE, <<>>)
     ELSE IF asString(inVal, "type") # "RegistrationManager"
             \/ asInt(inVal, "version") # 1
       THEN Result(list,
                   runtime_error("Wrong JSON object found, expected version 1 RegistrationManager."),
                   FALSE, <<>>)
     ELSE IF "elements" \notin DOMAIN inVal
       THEN Result(list, runtime_error("Invalid JSON for RegistrationManager."),
                   FALSE, <<>>)
     ELSE loadFrom_AtFront(NewRegistrationManager, inVal.elements)

\* operator>> that takes a manager of any version.
decodeManager_AnyVersion(list, text) ==
  LET in == readJson(text)
      inVal == in.val
  IN IF in.err # NoError
       THEN Result(list, in.err, FALSE, <<>>)
     ELSE IF asString(inVal, "type") # "RegistrationManager"
       THEN Result(list,
                   runtime_error("Wrong JSON object found, expected version 1 RegistrationManager."),
                   FALSE, <<>>)
     ELSE IF "elements" \notin DOMAIN inVal
       THEN Result(list, runtime_error("Invalid JSON for RegistrationManager."),
                   FALSE, <<>>)
     ELSE loadFrom(NewRegistrationManager, inVal.elements)

\* operator>> that does not clear the list before it reads the elements.
decodeManager_Merges(list, text) ==
  LET in == readJson(text)
      inVal == in.val
  IN IF in.err # NoError
       THEN Result(list, in.err, FALSE, <<>>)
     ELSE IF asString(inVal, "type") # "RegistrationManager"
             \/ asInt(inVal, "version") # 1
       THEN Result(list,
                   runtime_error("Wrong JSON object found, expected version 1 RegistrationManager."),
                   FALSE, <<>>)
     ELSE IF "elements" \notin DOMAIN inVal
       THEN Result(list, runtime_error("Invalid JSON for RegistrationManager."),
                   FALSE, <<>>)
     ELSE loadFrom(list, inVal.elements)

\* operator>> (std::istream&, RegistrationManager&): the list is cleared
\* once the text has passed the checks.
decodeManager(list, text) ==
  LET in == readJson(text)
      inVal == in.val
  IN IF in.err # NoError
       THEN Result(list, in.err, FALSE, <<>>)
     ELSE IF asString(inVal, "type") # "RegistrationManager"
             \/ asInt(inVal, "version") # 1
       THEN Result(list,
                   runtime_error("Wrong JSON object found, expected version 1 RegistrationManager."),
                   FALSE, <<>>)
     ELSE IF "elements" \notin DOMAIN inVal
       THEN Result(list, runtime_error("Invalid JSON for RegistrationManager."),
                   FALSE, <<>>)
     ELSE loadFrom(NewRegistrationManager, inVal.elements)

\* operator>> has got as far as obj.clear (): the text has passed the
\* checks of type, version and elements.
Cleared(text) ==
  LET in == readJson(text)
  IN /\ in.err = NoError
     /\ asString(in.val, "type") = "RegistrationManager"
     /\ asInt(in.val, "version") = 1
     /\ "elements" \in DOMAIN in.val

\* State files of a manager that did not come from operator<< of this run:
\* not JSON, the file of a single registration, a manager without its
\* list, a manager of a later version, a list without a type, and a manager
\* of an earlier run whose second element has an unknown state.
ForeignManagerTexts ==
  { NotJson,
    [type |-> "NameRegistration", version |-> 1, name |-> "d/b",
     state |-> "registered", value |-> "v", rand |-> "randX", tx |-> "txX"],
    [type |-> "RegistrationManager", version |-> 1],
    [type |-> "RegistrationManager", version |-> 2, elements |-> <<>>],
    [version |-> 1, elements |-> <<>>],
    [type |-> "RegistrationManager", version |-> 1,
     elements |-> << [type |-> "NameRegistration", version |-> 1,
                      name |-> "d/c", state |-> "activated",
                      txActivation |-> "txY"],
                     [type |-> "NameRegistration", version |-> 1,
                      name |-> "d/c", state |-> "finished"] >>] }

\* The Name objects a caller hands to the manager.
ManagerNameObjects ==
  { Name("d/a", FALSE, FALSE), Name("d/a", TRUE, FALSE),
    Name("d/b", FALSE, FALSE) }

\* ~RegistrationManager and clear (): every pointer of the list is
\* deleted, the list is emptied.
clear(list, held) == [obj |-> NewRegistrationManager, heap |-> held - Len(list)]

\* RegistrationManager reg(rpc): a new run of the program; the manager of
\* the run before has been destroyed.
ManagerConstruct ==
  /\ names' = NewRegistrationManager
  /\ heap' = clear(names, heap).heap
  /\ last' = Last("manager.construct", NoName, "", NoResult)
  /\ UNCHANGED <<reg, ledger, stream, hist, twin, unlocker, replies, pc>>

\* reg.registerName (nm)
ManagerRegisterNameStep(nm, f) ==
  LET newTx == TxIdOf(NumTx + 1)
      r == RegistrationManager_registerName(names, nm, f, newTx,
                                            RandOf(NumTx + 1))
  IN /\ names' = r.obj
     /\ last' = Last("manager.registerName", nm, "", r)
     /\ ledger' = IF r.err = NoError THEN ledger @@ (newTx :> 0) ELSE ledger
     /\ heap' = IF r.err = NoError THEN heap + 1 ELSE heap
     /\ UNCHANGED <<reg, stream, hist, twin, unlocker, replies, pc>>

ManagerRegisterName ==
  \E nm \in ManagerNameObjects, f \in RpcOutcomes :
    /\ Len(names) < MaxNames
    /\ Answers(f)
    /\ ManagerRegisterNameStep(nm, f)

\* setValue on the object registerName returned or an iterator points to.
ManagerSetValue ==
  \E i \in DOMAIN names, val \in Values :
    LET r == setValue(names[i], val)
    IN /\ names' = [names EXCEPT ![i] = r.obj]
       /\ last' = Last("manager.setValue", NoName, val, r)
       /\ UNCHANGED <<reg, ledger, stream, hist, twin, unlocker, replies, heap, pc>>

\* reg.update (), at most maxTx transactions in the wallet afterwards
ManagerUpdateStep(failAt, kind, maxTx) ==
  /\ (failAt = 0) <=> (kind = "none")
  /\ \E r \in {update(names, failAt, kind)} :
       /\ NumTx + r.made <= maxTx
       /\ names' = r.obj
       /\ last' = Last("manager.update", NoName, "", r)
       /\ ledger' = ledger @@ [t \in {TxIdOf(NumTx + k) : k \in 1..r.made}
                                 |-> 0]
       /\ UNCHANGED <<reg, stream, hist, twin, unlocker, replies, heap, pc>>

ManagerUpdate ==
  \E failAt \in DOMAIN names \cup {0}, kind \in UpdateFailures :
    ManagerUpdateStep(failAt, kind, MaxTx)

\* reg.cleanUp (), at most maxLeaked objects that are out of the list
\* and still allocated afterwards: erase drops the pointer, the object is
\* not deleted.
ManagerCleanUpStep(failAt, maxLeaked) ==
  \E r \in {cleanUp(names, failAt)}, count \in {cleanUpCount(names, failAt)} :
    /\ heap - Len(r.obj) <= maxLeaked
    /\ names' = r.obj
    /\ last' = Last("manager.cleanUp", NoName, "", [r EXCEPT !.ret = count])
    /\ UNCHANGED <<reg, ledger, stream, hist, twin, unlocker, replies, heap, pc>>

ManagerCleanUp ==
  \E failAt \in DOMAIN names \cup {0} : ManagerCleanUpStep(failAt, MaxLeaked)

\* out << manager
ManagerEncode ==
  LET e == encodeManager(names)
  IN /\ stream' = IF e.err = NoError THEN e.out ELSE stream
     /\ last' = Last("manager.encode", NoName, "",
                     Result(names, e.err, FALSE, <<>>))
     /\ UNCHANGED <<reg, ledger, hist, names, twin, unlocker, replies, heap, pc>>

\* in >> manager
ManagerDecode ==
  \E text \in {stream} \cup ForeignManagerTexts :
    LET r == decodeManager(names, text)
    IN /\ names' = r.obj
       /\ heap' = IF Cleared(text)
                    THEN clear(names, heap).heap + Len(r.obj)
                    ELSE heap
       /\ last' = Last("manager.decode", NoName, "", r)
       /\ UNCHANGED <<reg, ledger, stream, hist, twin, unlocker, replies, pc>>

\* Blocks are found until every transaction of the wallet has
\* FIRSTUPDATE_DELAY confirmations: a block deepens them all, so an older
\* transaction is never shallower than a newer one.
ManagerMine ==
  /\ \E t \in DOMAIN ledger : ledger[t] < FIRSTUPDATE_DELAY
  /\ ledger' = [t \in DOMAIN ledger |-> FIRSTUPDATE_DELAY]
  /\ last' = Last("mine", NoName, "", NoResult)
  /\ UNCHANGED <<reg, stream, hist, names, twin, unlocker, replies, heap, pc>>

\* A program that holds a manager and a NameRegistration it never starts.
ManagerNext ==
  \/ ManagerConstruct
  \/ ManagerRegisterName
  \/ ManagerSetValue
  \/ ManagerUpdate
  \/ ManagerCleanUp
  \/ ManagerEncode
  \/ ManagerDecode
  \/ Encode
  \/ ManagerMine

ManagerSpec == Init /\ [][ManagerNext]_vars

(* ------------------------------------------------------------------ *)
(* The life of the entries of one manager: names are registered, the   *)
(* caller polls with update and cleanUp, blocks are found.             *)

\* Number of entries the manager holds at a time, and number of
\* transactions the wallet makes.
MaxEntries == 3
MaxWalletTx == 6

\* The Name objects of the names that get registered.
LifecycleNameObjects == { Name("d/a", FALSE, FALSE), Name("d/b", TRUE, TRUE) }

\* The entries that still need their name_firstupdate.
Pending == Cardinality({i \in DOMAIN names : names[i].state = REGISTERED})

\* A name is registered only while the wallet has room for its name_new
\* and for the name_firstupdate of every entry.
LifecycleRegisterName ==
  \E nm \in LifecycleNameObjects, f \in RpcOutcomes :
    /\ Len(names) < MaxEntries
    /\ NumTx + Pending + 2 <= MaxWalletTx
    /\ ManagerRegisterNameStep(nm, f)

LifecycleUpdate ==
  \E failAt \in DOMAIN names \cup {0}, kind \in UpdateFailures :
    ManagerUpdateStep(failAt, kind, MaxWalletTx)

LifecycleCleanUp ==
  \E failAt \in DOMAIN names \cup {0} :
    ManagerCleanUpStep(failAt, MaxWalletTx)

LifecycleNext ==
  \/ LifecycleRegisterName
  \/ LifecycleUpdate
  \/ LifecycleCleanUp
  \/ ManagerMine

LifecycleSpec == Init /\ [][LifecycleNext]_vars

\* The caller keeps calling update and cleanUp and the calls get through
\* in the end; blocks keep being found.
UpdateSucceeds == ManagerUpdateStep(0, "none", MaxWalletTx)
CleanUpSucceeds == ManagerCleanUpStep(0, MaxWalletTx)

FairLifecycleSpec ==
  /\ LifecycleSpec
  /\ WF_vars(UpdateSucceeds)
  /\ WF_vars(CleanUpSucceeds)
  /\ WF_vars(ManagerMine)

(* ------------------------------------------------------------------ *)
(* update, one remote call at a time: the chain moves between the      *)
(* calls.                                                              *)

\* Where update goes on after entry i - 1: entry i, or the end of the loop.
Visit(i) == IF i > Len(names) THEN Idle ELSE [at |-> "canActivate", i |-> i]

\* The step after which update stands at next: the step that leaves the
\* loop is the return or the throw of update.
StepOp(next, step) == IF next = Idle THEN "manager.update" ELSE step

\* The program is in one call at a time.
RaceRegisterName == pc = Idle /\ LifecycleRegisterName

\* reg.update () is called.
UpdateBegin ==
  /\ pc = Idle
  /\ pc' = Visit(1)
  /\ last' = Last(StepOp(Visit(1), "update.begin"), NoName, "", NoResult)
  /\ UNCHANGED <<reg, ledger, stream, hist, names, twin, unlocker, replies,
                 heap>>

\* if (nm.canActivate ()): the first lookup of the confirmations.
UpdateCanActivate ==
  /\ pc.at = "canActivate"
  /\ \E f \in RpcOutcomes :
       /\ names[pc.i].state # REGISTERED => f = "ok"
       /\ \E can \in {canActivate(names[pc.i], f)} :
            \E next \in {IF can.err # NoError THEN Idle
                          ELSE IF can.ret THEN [at |-> "activate", i |-> pc.i]
                          ELSE Visit(pc.i + 1)} :
              /\ pc' = next
              /\ last' = Last(StepOp(next, "update.canActivate"), NoName, "",
                              can)
  /\ UNCHANGED <<reg, ledger, stream, hist, names, twin, unlocker, replies,
                 heap>>

\* nm.activate (): the second lookup and, when it agrees, name_firstupdate.
\* Nothing is read after the second lookup, so what the chain does between
\* these two calls changes nothing.
UpdateActivate ==
  /\ pc.at = "activate"
  /\ \E f1 \in RpcOutcomes, f2 \in RpcOutcomes :
       /\ f1 # "ok" => f2 = "ok"
       /\ \E act \in {activate(names[pc.i], f1, f2, TxIdOf(NumTx + 1))} :
            \E next \in {IF act.err # NoError THEN Idle
                          ELSE Visit(pc.i + 1)} :
              /\ act.err = NoError => NumTx < MaxWalletTx
              /\ names' = [names EXCEPT ![pc.i] = act.obj]
              /\ ledger' = IF act.err = NoError
                             THEN ledger @@ (TxIdOf(NumTx + 1) :> 0)
                             ELSE ledger
              /\ pc' = next
              /\ last' = Last(StepOp(next, "update.activate"), NoName, "",
                              act)
  /\ UNCHANGED <<reg, stream, hist, twin, unlocker, replies, heap>>

\* The chain is reorganised: the blocks that held the transactions of the
\* wallet are dropped and the transactions are unconfirmed again.
Reorg ==
  /\ \E t \in DOMAIN ledger : ledger[t] > 0
  /\ ledger' = [t \in DOMAIN ledger |-> 0]
  /\ last' = Last("reorg", NoName, "", NoResult)
  /\ UNCHANGED <<reg, stream, hist, names, twin, unlocker, replies, heap,
                 pc>>

RaceNext ==
  \/ RaceRegisterName
  \/ UpdateBegin
  \/ UpdateCanActivate
  \/ UpdateActivate
  \/ ManagerMine
  \/ Reorg

RaceSpec == Init /\ [][RaceNext]_vars

(* ------------------------------------------------------------------ *)
(* nmreg: every run of the tool loads the state file into a new        *)
(* manager, executes one command and writes the state file.  An        *)
(* exception leaves main through its catch blocks, before the write.   *)

\* Number of entries a state file holds, and number of transactions the
\* wallet makes for the tool.
MaxFileEntries == 2
MaxToolTx == 4

\* What a run adds to a result: the transactions the daemon has made.
Ran(list, err, calls, made) ==
  [obj |-> list, err |-> err, ret |-> FALSE, calls |-> calls, made |-> made]

\* std::ifstream fileIn(stateFile); if (fileIn) fileIn >> reg.  The tool
\* is the only writer of the file, and there is none before its first
\* write.
nmregLoad(file) ==
  IF file = NotJson
    THEN Result(NewRegistrationManager, NoError, FALSE, <<>>)
    ELSE decodeManager(NewRegistrationManager, file)

\* doInfo from entry i on: canActivate () of a REGISTERED entry, isFinished ()
\* of an ACTIVATED one.  failAt is the entry whose lookup throws.
RECURSIVE doInfoFrom(_, _, _)
doInfoFrom(list, i, failAt) ==
  IF i > Len(list)
    THEN Ran(list, NoError, <<>>, 0)
  ELSE
    LET f == IF failAt = i THEN "rpc" ELSE "ok"
        look == IF list[i].state = REGISTERED
                  THEN canActivate(list[i], f) ELSE isFinished(list[i], f)
        rest == doInfoFrom(list, i + 1, failAt)
    IN IF look.err # NoError
         THEN Ran(list, look.err, look.calls, 0)
         ELSE [rest EXCEPT !.calls = look.calls \o rest.calls]

doInfo(list, failAt) == doInfoFrom(list, 1, failAt)

\* What the daemon tells about a name that is looked up: it is free (code
\* -4), held, held and expired, or the lookup fails.
Lookups == {"free", "held", "expired", "error"}

\* doRegister: look is what the lookup of the name finds, f what name_new
\* does, made the number of transactions the run has made so far.
doRegister(list, n, look, f, val, made) ==
  LET q == queryName(n, look = "expired",
                     IF look = "free" THEN RpcError(-4)
                     ELSE IF look = "error" THEN RpcError(-1) ELSE NoError,
                     NoError)
      r == RegistrationManager_registerName(list, q.obj, f,
                                            TxIdOf(NumTx + made + 1),
                                            RandOf(NumTx + made + 1))
  IN IF q.err # NoError
       THEN Ran(list, q.err, q.calls, made)
     ELSE IF r.err # NoError
       THEN Ran(list, r.err, q.calls \o r.calls, made)
     ELSE LET cur == setValue(r.obj[r.ret], val)
          IN Ran([r.obj EXCEPT ![r.ret] = cur.obj], cur.err,
                 q.calls \o r.calls, made + 1)

\* The loop of the command multi over the lines of the list file; a line
\* is a name with what its lookup finds and what its name_new does.
RECURSIVE doMulti(_, _, _, _)
doMulti(list, lines, val, made) ==
  IF lines = <<>>
    THEN Ran(list, NoError, <<>>, made)
  ELSE
    LET line == Head(lines)
        r == doRegister(list, line.name, line.look, line.f, val, made)
    IN IF r.err # NoError
         THEN r
         ELSE LET rest == doMulti(r.obj, Tail(lines), val, r.made)
              IN [rest EXCEPT !.calls = r.calls \o rest.calls]

\* The value given on the command line.
ToolValues == {"v"}

\* The wallet as the run finds it: not encrypted, encrypted and given its
\* passphrase, or encrypted and given a wrong one.
Wallets == {"open", "locked", "wrong"}

\* nc.needWalletPassphrase () and WalletUnlocker unlock(nc, passphrase)
Unlocking(wallet) ==
  LET need == needWalletPassphrase(NoError, wallet # "open")
      u == WalletUnlocker("secret", wallet # "open", NoError, NoError,
                          IF wallet = "wrong" THEN RpcError(-14) ELSE NoError)
  IN Result(u.obj, u.err, FALSE, need.calls \o u.calls)

\* The commands update, register and multi: the wallet is unlocked for the
\* time of the command r and locked again when the scope is left, also by
\* an exception.
Unlocked(wallet, list, r) ==
  LET u == Unlocking(wallet)
      relock == IF u.obj.unlocked
                  THEN <<RpcCall("walletlock", <<>>)>> ELSE <<>>
  IN IF u.err # NoError
       THEN Ran(list, u.err, u.calls, 0)
       ELSE [r EXCEPT !.calls = u.calls \o r.calls \o relock]

\* The manager of a run once the state file is read, and the run when the
\* read throws.
Loaded == nmregLoad(stream)
LoadFailed == Ran(Loaded.obj, Loaded.err, <<>>, 0)

\* One run of main: r is what the command did to the manager the state
\* file was loaded into.  The file is written when nothing was thrown.
\* The process starts with an empty heap; every entry of the list was made
\* with new, and the entries cleanUp has erased are still allocated.
NmregRun(command, val, r) ==
  /\ NumTx + r.made <= MaxToolTx
  /\ Len(r.obj) <= MaxFileEntries
  /\ names' = r.obj
  /\ heap' = IF command = "clear" THEN Len(Loaded.obj) ELSE Len(r.obj)
  /\ last' = Last("nmreg " \o command, NoName, val, r)
  /\ ledger' = ledger @@ [t \in {TxIdOf(NumTx + k) : k \in 1..r.made} |-> 0]
  /\ stream' = IF r.err = NoError /\ encodeManager(r.obj).err = NoError
                 THEN encodeManager(r.obj).out ELSE stream
  /\ UNCHANGED <<reg, hist, twin, unlocker, replies, pc>>

NmregInfo ==
  \E failAt \in DOMAIN Loaded.obj \cup {0} :
    \E r \in {IF Loaded.err # NoError
                THEN LoadFailed ELSE doInfo(Loaded.obj, failAt)} :
      NmregRun("info", "", r)

NmregClear ==
  \E failAt \in DOMAIN Loaded.obj \cup {0} :
    \E c \in {cleanUp(Loaded.obj, failAt)} :
      NmregRun("clear", "",
               IF Loaded.err # NoError
                 THEN LoadFailed ELSE Ran(c.obj, c.err, c.calls, 0))

NmregUpdate ==
  \E wallet \in Wallets, failAt \in DOMAIN Loaded.obj \cup {0},
     kind \in UpdateFailures :
    /\ (failAt = 0) <=> (kind = "none")
    /\ wallet = "wrong" => failAt = 0
    /\ \E r \in {update(Loaded.obj, failAt, kind)} :
         NmregRun("update", "",
                  IF Loaded.err # NoError
                    THEN LoadFailed ELSE Unlocked(wallet, Loaded.obj, r))

\* What is not asked for is not drawn: the name_new of a name that is held
\* or whose lookup fails, and the command behind a wrong passphrase.
Asked(wallet, look, f) ==
  /\ look \in {"held", "error"} => f = "ok"
  /\ wallet = "wrong" => look = "free" /\ f = "ok"

NmregRegister ==
  \E wallet \in Wallets, n \in {"d/a", "d/b"}, look \in Lookups,
     f \in RpcOutcomes, val \in ToolValues :
    /\ Asked(wallet, look, f)
    /\ \E r \in {doRegister(Loaded.obj, n, look, f, val, 0)} :
         NmregRun("register", val,
                  IF Loaded.err # NoError
                    THEN LoadFailed ELSE Unlocked(wallet, Loaded.obj, r))

\* The list file holds two names.
NmregMulti ==
  \E wallet \in Wallets, look1 \in Lookups, look2 \in Lookups,
     f1 \in RpcOutcomes, f2 \in RpcOutcomes, val \in ToolValues :
    /\ Asked(wallet, look1, f1)
    /\ Asked(wallet, look2, f2)
    /\ (look1 \in {"held", "error"} \/ f1 # "ok")
         => look2 = "free" /\ f2 = "ok"
    /\ \E r \in {doMulti(Loaded.obj,
                          << [name |-> "d/a", look |-> look1, f |-> f1],
                             [name |-> "d/b", look |-> look2, f |-> f2] >>,
                          val, 0)} :
         NmregRun("multi", val,
                  IF Loaded.err # NoError
                    THEN LoadFailed ELSE Unlocked(wallet, Loaded.obj, r))

NmregNext ==
  \/ NmregInfo
  \/ NmregClear
  \/ NmregUpdate
  \/ NmregRegister
  \/ NmregMulti
  \/ ManagerMine

NmregSpec == Init /\ [][NmregNext]_vars

(* ------------------------------------------------------------------ *)
(* A restart: the caller saves reg, a new run of the program loads the *)
(* text into a fresh object (twin), and from then on every call is     *)
(* made on both, against the same wallet.                              *)

\* No state has been saved and loaded yet.
NotRestarted == twin.state = NOT_STARTED

\* The first run of the program, on reg alone.
FirstRegisterName == NotRestarted /\ CallRegisterName
FirstSetValue == NotRestarted /\ CallSetValue
FirstActivate == NotRestarted /\ CallActivate
FirstEncode == NotRestarted /\ Encode
FirstDecode == NotRestarted /\ Decode

\* fileOut << reg in one run, fileIn >> reg on a fresh object in the next.
Restart ==
  /\ NotRestarted
  /\ reg.state \in {REGISTERED, ACTIVATED}
  /\ stream' = encode(reg).out
  /\ twin' = decode(NewNameRegistration, encode(reg).out).obj
  /\ last' = Last("restart", NoName, "", NoResult)
  /\ UNCHANGED <<reg, ledger, hist, names, unlocker, replies, heap, pc>>

BothSetValue ==
  \E val \in Values :
    /\ ~NotRestarted
    /\ reg' = setValue(reg, val).obj
    /\ twin' = setValue(twin, val).obj
    /\ last' = Last("setValue", NoName, val, setValue(reg, val))
    /\ UNCHANGED <<ledger, stream, hist, names, unlocker, replies, heap, pc>>

BothCanActivate ==
  \E f \in RpcOutcomes :
    /\ ~NotRestarted
    /\ reg' = canActivate(reg, f).obj
    /\ twin' = canActivate(twin, f).obj
    /\ last' = Last("canActivate", NoName, "", canActivate(reg, f))
    /\ UNCHANGED <<ledger, stream, hist, names, unlocker, replies, heap, pc>>

BothActivate ==
  \E f1 \in RpcOutcomes, f2 \in RpcOutcomes :
    LET newTx == TxIdOf(NumTx + 1)
        r == activate(reg, f1, f2, newTx)
    IN /\ ~NotRestarted
       /\ Answers(f2)
       /\ reg' = r.obj
       /\ twin' = activate(twin, f1, f2, newTx).obj
       /\ last' = Last("activate", NoName, "", r)
       /\ ledger' = IF r.err = NoError THEN ledger @@ (newTx :> 0) ELSE ledger
       /\ UNCHANGED <<stream, hist, names, unlocker, replies, heap, pc>>

BothIsFinished ==
  \E f \in RpcOutcomes :
    /\ ~NotRestarted
    /\ reg' = isFinished(reg, f).obj
    /\ twin' = isFinished(twin, f).obj
    /\ last' = Last("isFinished", NoName, "", isFinished(reg, f))
    /\ UNCHANGED <<ledger, stream, hist, names, unlocker, replies, heap, pc>>

RestartNext ==
  \/ FirstRegisterName
  \/ FirstSetValue
  \/ FirstActivate
  \/ FirstEncode
  \/ FirstDecode
  \/ Restart
  \/ BothSetValue
  \/ BothCanActivate
  \/ BothActivate
  \/ BothIsFinished
  \/ Mine

RestartSpec == Init /\ [][RestartNext]_vars

(* ------------------------------------------------------------------ *)
(* Properties.  A step of an operation is a step that leaves its name  *)
(* in last'; unprimed variables are the state at the call.             *)

\* The RPC calls of the last operation that went to the given method.
CallsTo(calls, method) == SelectSeq(calls, LAMBDA c : c.method = method)

\* The depth the wallet reports for the reservation of reg, or -1.
ReservationDepth == IF reg.tx \in DOMAIN ledger THEN ledger[reg.tx] ELSE -1

\* C1 as stated: activate succeeds only on an object whose registerName
\* has succeeded and whose reservation has FIRSTUPDATE_DELAY confirmations;
\* whenever it does not get as far as name_firstupdate it has thrown one
\* of the two std::runtime_error and issued no name_firstupdate.
C1_ActivateOnlyAfterRegisterName ==
  [][last'.op = "activate"
       => /\ last'.err = NoError
               => /\ hist.registered
                  /\ reg.state = REGISTERED
                  /\ ReservationDepth >= FIRSTUPDATE_DELAY
          /\ Len(last'.calls) < 2
               => /\ last'.err \in {InvalidStateError("activate"),
                                    NotYetEligibleError}
                  /\ CallsTo(last'.calls, "name_firstupdate") = <<>>]_vars

\* C1 as amended: activate succeeds only on a REGISTERED object whose
\* reservation has FIRSTUPDATE_DELAY confirmations, and an object becomes
\* REGISTERED by a successful registerName or a successful decode only;
\* otherwise activate throws the invalid-state error, the not-yet error or
\* the error of the confirmation lookup, and issues no name_firstupdate.
C1_ActivateOnlyWhenEligible ==
  [][/\ last'.op = "activate"
          => /\ last'.err = NoError
                  => /\ reg.state = REGISTERED
                     /\ ReservationDepth >= FIRSTUPDATE_DELAY
             /\ reg.state # REGISTERED
                  => /\ last'.err = InvalidStateError("activate")
                     /\ last'.calls = <<>>
             /\ (reg.state = REGISTERED
                   /\ ReservationDepth < FIRSTUPDATE_DELAY)
                  => /\ \/ last'.err = NotYetEligibleError
                        \/ last'.err.cls = "JsonRpc::RpcError"
                     /\ CallsTo(last'.calls, "name_firstupdate") = <<>>
     /\ (reg.state # REGISTERED /\ reg'.state = REGISTERED)
          => /\ last'.op \in {"registerName", "decode"}
             /\ last'.err = NoError]_vars

\* An object that never ran registerName (it was decoded) has activated.
C1_Witness ==
  /\ last.op = "activate"
  /\ last.err = NoError
  /\ reg.state = ACTIVATED
  /\ ~hist.registered

\* C2: a registerName whose name_new call throws leaves the object as it
\* was: NOT_STARTED, and every field with the value it had.
C2_FailedReserveChangesNothing ==
  [][(last'.op = "registerName"
        /\ last'.err # NoError
        /\ CallsTo(last'.calls, "name_new") # <<>>)
       => /\ reg.state = NOT_STARTED
          /\ reg' = reg]_vars

\* C3: an activate that throws on a REGISTERED object (the confirmation
\* lookup or name_firstupdate failed, or it is too early) leaves every
\* field of the object, and the wallet, as they were.
C3_FailedActivateChangesNothing ==
  [][(last'.op = "activate" /\ last'.err # NoError /\ reg.state = REGISTERED)
       => /\ reg' = reg
          /\ reg'.state = REGISTERED
          /\ ledger' = ledger]_vars

\* name_firstupdate has just failed, and an activate of the same object
\* now succeeds.
C3_Witness ==
  /\ last.op = "activate"
  /\ last.err.cls = "JsonRpc::RpcError"
  /\ CallsTo(last.calls, "name_firstupdate") # <<>>
  /\ reg.state = REGISTERED
  /\ ENABLED (CallActivate /\ last'.err = NoError /\ reg'.state = ACTIVATED)

(* ------------------------------------------------------------------ *)
(* Properties.                                                         *)

\* C4: registerName on an object that is not NOT_STARTED throws the
\* invalid-state std::runtime_error, issues no RPC call and changes no
\* field of the object (nor the wallet).
C4_RegisterNameNeedsNotStarted ==
  [][(last'.op = "registerName" /\ reg.state # NOT_STARTED)
       => /\ last'.err = InvalidStateError("registerName")
          /\ last'.calls = <<>>
          /\ reg' = reg
          /\ ledger' = ledger]_vars

\* A second registerName on the object that registered has thrown.
C4_Witness ==
  /\ last.op = "registerName"
  /\ last.err = InvalidStateError("registerName")
  /\ hist.registered
  /\ reg.state \in {REGISTERED, ACTIVATED}

C6_RegisterNameStoresReservation ==
  [][(last'.op = "registerName" /\ last'.err = NoError)
       => /\ reg.state = NOT_STARTED
          /\ last'.calls = <<RpcCall("name_new", <<last'.nm.name>>)>>
          /\ reg'.state = REGISTERED
          /\ reg'.name = last'.nm.name
          /\ DOMAIN ledger' = DOMAIN ledger \cup {reg'.tx}
          /\ reg'.tx \notin DOMAIN ledger
          /\ reg'.tx = TxIdOf(Cardinality(DOMAIN ledger'))
          /\ reg'.rand = RandOf(Cardinality(DOMAIN ledger'))
          /\ reg'.value = ""
          /\ reg'.txActivation = reg.txActivation]_vars

\* registerName has succeeded for a name that had expired.
C6_Witness ==
  /\ last.op = "registerName"
  /\ last.err = NoError
  /\ last.nm.ex /\ last.nm.expired
  /\ reg.state = REGISTERED
  /\ reg.name = "d/a"
  /\ reg.tx \in DOMAIN ledger

\* C7: setValue on a REGISTERED object stores the value and changes
\* nothing else; in any other state it throws the invalid-state error and
\* changes nothing.  It never issues an RPC call.
C7_SetValueOnlyWhenRegistered ==
  [][last'.op = "setValue"
       => /\ last'.calls = <<>>
          /\ ledger' = ledger
          /\ IF reg.state = REGISTERED
               THEN /\ last'.err = NoError
                    /\ reg' = [reg EXCEPT !.value = last'.val]
               ELSE /\ last'.err = InvalidStateError("setValue")
                    /\ reg' = reg]_vars

\* setValue has replaced the empty value of a REGISTERED object.
C7_Witness ==
  /\ last.op = "setValue"
  /\ last.err = NoError
  /\ reg.state = REGISTERED
  /\ reg.value = "v"

\* C8: a canActivate that returns, returns TRUE exactly when the object
\* is REGISTERED and the wallet reports, at this call, at least
\* FIRSTUPDATE_DELAY confirmations for its reservation; on a REGISTERED
\* object every call asks the wallet with one gettransaction.
C8_CanActivateIffDeepEnough ==
  [][last'.op = "canActivate"
       => /\ last'.err = NoError
               => (last'.ret <=> (/\ reg.state = REGISTERED
                                  /\ ReservationDepth >= FIRSTUPDATE_DELAY))
          /\ reg.state = REGISTERED
               => last'.calls = <<RpcCall("gettransaction", <<reg.tx>>)>>]_vars

\* canActivate has answered TRUE.
C8_Witness ==
  /\ last.op = "canActivate"
  /\ last.err = NoError
  /\ last.ret
  /\ reg.state = REGISTERED
  /\ ReservationDepth = FIRSTUPDATE_DELAY

\* C9: canActivate changes no field of the object (nor the wallet or the
\* stream); on an object that is not REGISTERED it returns FALSE, throws
\* nothing and asks the wallet nothing; and called again right after a
\* call that answered, it gives the same answer.
C9_CanActivateIsReadOnly ==
  [][last'.op = "canActivate"
       => /\ reg' = reg
          /\ ledger' = ledger
          /\ stream' = stream
          /\ reg.state # REGISTERED
               => /\ last'.err = NoError
                  /\ ~last'.ret
                  /\ last'.calls = <<>>
          /\ (last.op = "canActivate" /\ last.err = NoError
                /\ last'.err = NoError)
               => last'.ret = last.ret]_vars

\* canActivate has answered FALSE on an activated object without a call.
C9_Witness ==
  /\ last.op = "canActivate"
  /\ last.err = NoError
  /\ ~last.ret
  /\ last.calls = <<>>
  /\ reg.state = ACTIVATED

\* C10 as stated: activate on a REGISTERED object whose reservation has
\* fewer than FIRSTUPDATE_DELAY confirmations throws the not-yet error,
\* which is of another kind (class) than the invalid-state error thrown
\* outside REGISTERED; either way no name_firstupdate and no change.
C10_NotYetIsAnotherKind ==
  [][(last'.op = "activate" /\ last'.err.cls # "JsonRpc::RpcError")
       => /\ (reg.state = REGISTERED
                /\ ReservationDepth < FIRSTUPDATE_DELAY)
               => /\ last'.err = NotYetEligibleError
                  /\ last'.err.cls # InvalidStateError("activate").cls
                  /\ CallsTo(last'.calls, "name_firstupdate") = <<>>
                  /\ reg' = reg
          /\ reg.state # REGISTERED
               => /\ last'.err = InvalidStateError("activate")
                  /\ last'.calls = <<>>
                  /\ reg' = reg]_vars

\* C10 as amended: the not-yet error and the invalid-state error are both
\* std::runtime_error and differ in their message only; either way no
\* name_firstupdate and no change.
C10_NotYetDiffersByMessage ==
  [][(last'.op = "activate" /\ last'.err.cls # "JsonRpc::RpcError")
       => /\ (reg.state = REGISTERED
                /\ ReservationDepth < FIRSTUPDATE_DELAY)
               => /\ last'.err = NotYetEligibleError
                  /\ last'.err.cls = InvalidStateError("activate").cls
                  /\ last'.err.what # InvalidStateError("activate").what
                  /\ CallsTo(last'.calls, "name_firstupdate") = <<>>
                  /\ reg' = reg
          /\ reg.state # REGISTERED
               => /\ last'.err = InvalidStateError("activate")
                  /\ last'.calls = <<>>
                  /\ reg' = reg]_vars

\* activate has thrown the not-yet error one confirmation short.
C10_Witness ==
  /\ last.op = "activate"
  /\ last.err = NotYetEligibleError
  /\ reg.state = REGISTERED
  /\ ReservationDepth = FIRSTUPDATE_DELAY - 1

\* C11: a successful activate issues exactly one name_firstupdate call,
\* with the arguments name, rand, tx and value of the object in this order;
\* afterwards the object is ACTIVATED, txActivation is the transaction the
\* daemon created for that call and nothing else of the object has changed.
\* The value sent is the one setValue stored last: between a setValue and
\* the activate only a new reservation or a load writes the field.
C11_ActivateSendsStoredReservation ==
  [][/\ (last'.op = "activate" /\ last'.err = NoError)
          => /\ CallsTo(last'.calls, "name_firstupdate")
                  = << RpcCall("name_firstupdate",
                               <<reg.name, reg.rand, reg.tx, reg.value>>) >>
             /\ reg' = [reg EXCEPT !.state = ACTIVATED,
                                   !.txActivation = TxIdOf(NumTx + 1)]
             /\ reg'.txActivation \notin DOMAIN ledger
             /\ reg'.txActivation \in DOMAIN ledger'
     /\ last'.op = "setValue" /\ last'.err = NoError
          => reg'.value = last'.val
     /\ reg'.value # reg.value
          => \/ last'.op \in {"setValue", "decode", "construct"}
             \/ last'.op = "registerName" /\ reg'.value = ""]_vars

\* activate has succeeded with a value that setValue stored.
C11_Witness ==
  /\ last.op = "activate"
  /\ last.err = NoError
  /\ reg.state = ACTIVATED
  /\ reg.value = "v"
  /\ reg.txActivation \in DOMAIN ledger
  /\ Len(CallsTo(last.calls, "name_firstupdate")) = 1

\* The depth the wallet reports for the name_firstupdate of reg, or -1.
ActivationDepth ==
  IF reg.txActivation \in DOMAIN ledger THEN ledger[reg.txActivation] ELSE -1

\* C12: isFinished changes nothing in any state.  Outside ACTIVATED it
\* returns FALSE without a lookup; on an ACTIVATED object it looks
\* txActivation up once and, when the lookup answers, returns TRUE exactly
\* if the transaction has at least one confirmation.
C12_IsFinishedIffConfirmed ==
  [][last'.op = "isFinished"
       => /\ reg' = reg
          /\ ledger' = ledger
          /\ stream' = stream
          /\ reg.state # ACTIVATED
               => /\ last'.err = NoError
                  /\ ~last'.ret
                  /\ last'.calls = <<>>
          /\ reg.state = ACTIVATED
               => /\ last'.calls
                       = <<RpcCall("gettransaction", <<reg.txActivation>>)>>
                  /\ last'.err = NoError
                       => (last'.ret <=> ActivationDepth >= 1)
                  /\ last'.err # NoError => ~last'.ret]_vars

\* isFinished has returned TRUE at the first confirmation.
C12_Witness ==
  /\ last.op = "isFinished"
  /\ last.err = NoError
  /\ last.ret
  /\ reg.state = ACTIVATED
  /\ ActivationDepth = 1

\* The order of the states: NOT_STARTED < REGISTERED < ACTIVATED.
Rank(st) == IF st = NOT_STARTED THEN 0 ELSE IF st = REGISTERED THEN 1 ELSE 2

\* C13: no registerName, setValue, activate or load into the object moves
\* its state backwards in NOT_STARTED < REGISTERED < ACTIVATED.
C13_StateNeverMovesBack ==
  [][last'.op \in {"registerName", "setValue", "activate", "decode"}
       => Rank(reg'.state) >= Rank(reg.state)]_vars

\* rand and tx are the answer of one name_new: of this daemon, or the one
\* a foreign state file records.
IsReservation(rand, tx) ==
  \/ \E n \in 1..NumTx : rand = RandOf(n) /\ tx = TxIdOf(n)
  \/ rand = "randX" /\ tx = "txX"

\* C14 as stated: rand and tx hold the answer of a name_new exactly when
\* the object is REGISTERED or ACTIVATED.
C14_ReservationSetIffStarted ==
  IsReservation(reg.rand, reg.tx) <=> reg.state \in {REGISTERED, ACTIVATED}

\* C14 as amended: rand and tx are empty in NOT_STARTED and hold the answer
\* of a name_new in REGISTERED; in ACTIVATED they hold it when the object
\* itself was registered or has just been activated, and are both empty or
\* both set otherwise (empty after a load of an activated process into a
\* fresh object).
C14_ReservationSetWhenRegistered ==
  /\ reg.state = NOT_STARTED => reg.rand = "" /\ reg.tx = ""
  /\ reg.state = REGISTERED => IsReservation(reg.rand, reg.tx)
  /\ reg.state = ACTIVATED
       => /\ IsReservation(reg.rand, reg.tx) \/ (reg.rand = "" /\ reg.tx = "")
          /\ hist.registered => IsReservation(reg.rand, reg.tx)
          /\ (last.op = "activate" /\ last.err = NoError)
               => IsReservation(reg.rand, reg.tx)

\* An activated process has been loaded into a fresh object: it has no
\* reservation.
C14_Witness ==
  /\ last.op = "decode"
  /\ last.err = NoError
  /\ reg.state = ACTIVATED
  /\ reg.txActivation \in DOMAIN ledger
  /\ reg.rand = ""
  /\ reg.tx = ""

\* C15: txActivation is set exactly when the object is ACTIVATED.
C15_ActivationSetIffActivated ==
  reg.txActivation # "" <=> reg.state = ACTIVATED

\* The operations of a NameRegistration but its stream operators.
Methods ==
  {"registerName", "setValue", "canActivate", "activate", "isFinished"}

\* C16 as stated: once a registerName has issued its name_new, no later
\* method call changes the name (here: the call that follows), and
\* name_firstupdate is sent for the name of the object.
C16_NameFixedAfterReserveCall ==
  [][/\ (last.op = "registerName" /\ CallsTo(last.calls, "name_new") # <<>>
           /\ last'.op \in Methods)
          => reg'.name = reg.name
     /\ last'.op = "activate"
          => \A i \in DOMAIN last'.calls :
               last'.calls[i].method = "name_firstupdate"
                 => last'.calls[i].args[1] = reg.name]_vars

\* C16 as amended: a successful registerName stores the name it sent to
\* name_new; from then on (the object is REGISTERED or ACTIVATED) no
\* method call changes the name, and name_firstupdate is sent for it.  A
\* registerName whose name_new failed leaves the object NOT_STARTED, and a
\* later registerName gives it another name.
C16_NameFixedOnceRegistered ==
  [][/\ (last'.op = "registerName" /\ last'.err = NoError)
          => last'.calls = <<RpcCall("name_new", <<reg'.name>>)>>
     /\ (reg.state # NOT_STARTED /\ last'.op \in Methods \cup {"encode"})
          => reg'.name = reg.name
     /\ last'.op = "activate"
          => \A i \in DOMAIN last'.calls :
               last'.calls[i].method = "name_firstupdate"
                 => last'.calls[i].args[1] = reg.name
     /\ (last.op = "registerName" /\ last.err # NoError
           /\ last'.op = "registerName" /\ last'.err = NoError)
          => reg'.name = last'.nm.name]_vars

\* The object this registerName made REGISTERED has sent name_firstupdate
\* for the name it reserved.
C16_Witness ==
  /\ hist.registered
  /\ last.op = "activate"
  /\ last.err = NoError
  /\ reg.name = "d/b"
  /\ last.calls[Len(last.calls)].args[1] = "d/b"

\* out << p, then in >> q for a fresh q.
RoundTrip(p) == decode(NewNameRegistration, encode(p).out)

\* C17 as stated: saving a REGISTERED or ACTIVATED object and loading the
\* text into a fresh object gives an object with the same name, state,
\* value, rand, tx and txActivation.
C17_RoundTripIsIdentity ==
  reg.state \in {REGISTERED, ACTIVATED}
    => /\ encode(reg).err = NoError
       /\ RoundTrip(reg).err = NoError
       /\ RoundTrip(reg).obj = reg

\* C17 as amended: the round trip succeeds and keeps the name and the
\* state; of a REGISTERED object it keeps value, rand and tx and gives an
\* empty txActivation, of an ACTIVATED object it keeps txActivation and
\* gives an empty value, rand and tx.
C17_RoundTripKeepsSavedFields ==
  reg.state \in {REGISTERED, ACTIVATED}
    => /\ encode(reg).err = NoError
       /\ RoundTrip(reg).err = NoError
       /\ LET q == RoundTrip(reg).obj
          IN /\ q.name = reg.name
             /\ q.state = reg.state
             /\ reg.state = REGISTERED
                  => q = [reg EXCEPT !.txActivation = ""]
             /\ reg.state = ACTIVATED
                  => q = [reg EXCEPT !.value = "", !.rand = "", !.tx = ""]

\* A fresh object has been loaded from the text of a REGISTERED object
\* with a value; saving it gives the same text again.
C17_Witness ==
  /\ ~hist.registered
  /\ last.op = "decode"
  /\ last.err = NoError
  /\ reg.state = REGISTERED
  /\ reg.value = "v"
  /\ reg.tx \in DOMAIN ledger
  /\ reg.txActivation = ""
  /\ stream = encode(reg).out

\* out << manager, then in >> fresh for a fresh manager.
ManagerRoundTrip(list) ==
  decodeManager(NewRegistrationManager, encodeManager(list).out)

\* C18 as stated: saving a manager and loading the text into a fresh
\* manager gives the same number of entries in the same order, each equal
\* to the entry it was saved from.
C18_ManagerRoundTripIsIdentity ==
  /\ encodeManager(names).err = NoError
  /\ ManagerRoundTrip(names).err = NoError
  /\ ManagerRoundTrip(names).obj = names

\* C18 as amended: the round trip of a manager gives the same number of
\* entries in the same order, each the round trip of the entry it was saved
\* from: the same name and state, value, rand and tx of a REGISTERED entry,
\* txActivation of an ACTIVATED entry, the other members empty.
C18_ManagerRoundTripKeepsSavedFields ==
  /\ encodeManager(names).err = NoError
  /\ ManagerRoundTrip(names).err = NoError
  /\ LET loaded == ManagerRoundTrip(names).obj
     IN /\ Len(loaded) = Len(names)
        /\ \A i \in DOMAIN names :
             /\ loaded[i].name = names[i].name
             /\ loaded[i].state = names[i].state
             /\ names[i].state = REGISTERED
                  => loaded[i] = [names[i] EXCEPT !.txActivation = ""]
             /\ names[i].state = ACTIVATED
                  => loaded[i] = [names[i] EXCEPT !.value = "", !.rand = "",
                                                  !.tx = ""]

\* A manager has been loaded from the text of a manager with two different
\* entries.
C18_Witness ==
  /\ last.op = "manager.decode"
  /\ last.err = NoError
  /\ Len(names) = 2
  /\ names[1].name # names[2].name
  /\ names[1].value # names[2].value
  /\ stream = encodeManager(names).out

SameOutcome(rp, rq) ==
  /\ rp.err = rq.err
  /\ rp.ret = rq.ret
  /\ rp.calls = rq.calls

\* C19: once reg has been saved and loaded into the fresh object twin, and
\* whatever calls were made on both since, every setValue, canActivate,
\* activate and isFinished has the same outcome on twin as on reg.
C19_RestartedBehavesAlike ==
  ~NotRestarted
    => /\ twin.state = reg.state
       /\ \A val \in Values :
            SameOutcome(setValue(reg, val), setValue(twin, val))
       /\ \A f \in RpcOutcomes :
            /\ SameOutcome(canActivate(reg, f), canActivate(twin, f))
            /\ SameOutcome(isFinished(reg, f), isFinished(twin, f))
       /\ \A f1 \in RpcOutcomes, f2 \in RpcOutcomes :
            SameOutcome(activate(reg, f1, f2, TxIdOf(NumTx + 1)),
                        activate(twin, f1, f2, TxIdOf(NumTx + 1)))

\* The object activated before the restart and its reloaded copy, which
\* has lost value, rand and tx, have both answered that they are finished.
C19_Witness ==
  /\ ~NotRestarted
  /\ last.op = "isFinished"
  /\ last.err = NoError
  /\ last.ret
  /\ reg.value = "v"
  /\ twin.value = ""
  /\ twin.tx = ""
  /\ SameOutcome(isFinished(reg, "ok"), Result(twin, NoError, TRUE, last.calls))

\* The std::runtime_error the stream operators throw for a text of the
\* wrong type or version, and for a state they do not know.
FormatError(type) ==
  runtime_error("Wrong JSON object found, expected version 1 " \o type \o ".")

UnknownStateError ==
  runtime_error("Invalid state found in the JSON data of NameRegistration.")

\* The JSON texts a manager is loaded from, and the JSON texts a process is
\* loaded from: state files and the elements of manager files.
ManagerBlobs == ({stream} \cup ForeignManagerTexts) \ {NotJson}

ProcessBlobs ==
  (ForeignTexts \ {NotJson})
    \cup UNION { {b.elements[i] : i \in DOMAIN b.elements} :
                 b \in {m \in ManagerBlobs : "elements" \in DOMAIN m} }

\* The type and version of a JSON text are those of the given object type.
RightTypeAndVersion(blob, type) ==
  /\ "type" \in DOMAIN blob /\ blob.type = type
  /\ "version" \in DOMAIN blob /\ blob.version = 1

\* The state of a process text is one operator>> knows.
KnownState(blob) == asString(blob, "state") \in {"registered", "activated"}

\* C21: operator>> of a manager and of a process look at type and version
\* of the JSON text before anything else: a text without the type, with
\* another type or with a version other than 1 makes them throw the
\* std::runtime_error of a wrong JSON object, with the manager's list and
\* the object as they were and no RPC call; a process text of the right
\* type and version whose state is neither registered nor activated makes
\* operator>> throw the std::runtime_error of an invalid state, also when
\* the text is an element of a manager's file.
C21_TypeAndVersionCheckedFirst ==
  /\ \A blob \in ManagerBlobs :
       ~RightTypeAndVersion(blob, "RegistrationManager")
         => decodeManager(names, blob)
              = Result(names, FormatError("RegistrationManager"), FALSE, <<>>)
  /\ \A blob \in ProcessBlobs :
       \A obj \in {names[i] : i \in DOMAIN names} \cup {NewNameRegistration} :
         /\ ~RightTypeAndVersion(blob, "NameRegistration")
              => decode(obj, blob)
                   = Result(obj, FormatError("NameRegistration"), FALSE, <<>>)
         /\ (RightTypeAndVersion(blob, "NameRegistration") /\ ~KnownState(blob))
              => /\ decode(obj, blob).err = UnknownStateError
                 /\ decode(obj, blob).calls = <<>>
         /\ (RightTypeAndVersion(blob, "NameRegistration") /\ KnownState(blob))
              => decode(obj, blob).err = NoError
  /\ \A blob \in ManagerBlobs :
       (/\ RightTypeAndVersion(blob, "RegistrationManager")
        /\ "elements" \in DOMAIN blob
        /\ \E i \in DOMAIN blob.elements :
             RightTypeAndVersion(blob.elements[i], "NameRegistration")
               => ~KnownState(blob.elements[i]))
         => decodeManager(names, blob).err
              \in {FormatError("NameRegistration"), UnknownStateError}

\* A manager of two entries has refused a text, and a text of version 2 is
\* one it refuses that way; the list is as it was.
C21_Witness ==
  /\ last.op = "manager.decode"
  /\ last.err = FormatError("RegistrationManager")
  /\ Len(names) = 2
  /\ \E blob \in ManagerBlobs :
       /\ asString(blob, "type") = "RegistrationManager"
       /\ asInt(blob, "version") = 2
       /\ decodeManager(names, blob).err = last.err
       /\ decodeManager(names, blob).obj = names

\* The entries a manager's file holds, each read into a fresh object.
EntriesOf(blob) ==
  [i \in DOMAIN blob.elements
     |-> decode(NewNameRegistration, blob.elements[i]).obj]

\* C22: a load of a manager that succeeds leaves in the list exactly the
\* entries of the file it read, in the order of the file, whatever the
\* list held before; the file is one a load can succeed on (right type and
\* version, every element a registration), and the wallet and the stream
\* are as they were.
C22_LoadReplacesTheList ==
  [][(last'.op = "manager.decode" /\ last'.err = NoError)
       => /\ \E blob \in ManagerBlobs :
               /\ RightTypeAndVersion(blob, "RegistrationManager")
               /\ "elements" \in DOMAIN blob
               /\ names' = EntriesOf(blob)
               /\ Len(names') = Len(blob.elements)
               /\ \A other \in {NewRegistrationManager, names, names \o names} :
                    decodeManager(other, blob) = Result(names', NoError, FALSE, <<>>)
          /\ ledger' = ledger
          /\ stream' = stream]_vars

\* A manager has been loaded from a file of one entry while the wallet
\* holds the unconfirmed name_new of a second entry that the list held
\* before the load.
C22_Witness ==
  /\ last.op = "manager.decode"
  /\ last.err = NoError
  /\ Len(names) = 1
  /\ names[1].state = REGISTERED
  /\ names[1].tx = TxIdOf(1)
  /\ NumTx = 2
  /\ \A t \in DOMAIN ledger : ledger[t] = 0
  /\ stream = encodeManager(names).out

\* C23: RegistrationManager::registerName adds an entry only when the
\* registerName of the new object succeeds.  Then the list is the old list
\* with one REGISTERED entry appended, which holds the name and the answer
\* of name_new, and the entry returned is that last one; when it throws
\* (NameAlreadyReserved, or what the RPC call threw) the list and the
\* wallet are as they were and the exception is the one of the object.
C23_RegisterNameAppendsOnSuccess ==
  [][last'.op = "manager.registerName"
       => LET r == registerName(NewNameRegistration, last'.nm,
                                IF last'.err.cls \in {"none",
                                                      "NameAlreadyReserved"}
                                  THEN "ok" ELSE "rpc",
                                TxIdOf(NumTx + 1), RandOf(NumTx + 1))
          IN /\ last'.err = r.err
             /\ last'.calls = r.calls
             /\ last'.err = NoError
                  => /\ Len(names') = Len(names) + 1
                     /\ \A i \in DOMAIN names : names'[i] = names[i]
                     /\ names'[Len(names')] = r.obj
                     /\ names'[Len(names')]
                          = [state |-> REGISTERED, name |-> last'.nm.name,
                             value |-> "", rand |-> RandOf(NumTx + 1),
                             tx |-> TxIdOf(NumTx + 1), txActivation |-> ""]
                     /\ last'.ret = Len(names')
                     /\ ledger' = ledger @@ (TxIdOf(NumTx + 1) :> 0)
             /\ last'.err # NoError
                  => /\ names' = names
                     /\ ledger' = ledger
                     /\ last'.err \in {NameAlreadyReserved(last'.nm.name),
                                       RpcFailure("rpc")}
             /\ (last'.nm.ex /\ ~last'.nm.expired)
                  => last'.err = NameAlreadyReserved(last'.nm.name)]_vars

\* A second name has been registered: it stands behind the first entry,
\* which has a value, and it is the entry returned.
C23_Witness ==
  /\ last.op = "manager.registerName"
  /\ last.err = NoError
  /\ Len(names) = 2
  /\ last.ret = 2
  /\ names[1].value = "v"
  /\ names[1].tx = TxIdOf(1)
  /\ names[2].name = last.nm.name
  /\ names[2].tx = TxIdOf(2)
  /\ names[2].state = REGISTERED

\* The entries of the list that canActivate () is true for, and those
\* among the first n.
Eligible == {i \in DOMAIN names : canActivate(names[i], "ok").ret}
EligibleUpTo(n) == {i \in Eligible : i <= n}

\* Entry i as update leaves it when it has activated the eligible entries
\* up to it.
Advanced(i) ==
  IF i \in Eligible
    THEN [names[i] EXCEPT !.state = ACTIVATED,
                          !.txActivation
                             = TxIdOf(NumTx + Cardinality(EligibleUpTo(i)))]
    ELSE names[i]

\* C24: an update during which no RPC call fails leaves the list with the
\* same number of entries in the same order; every entry canActivate () is
\* true for when the loop reaches it is ACTIVATED afterwards, with the
\* transaction of its own name_firstupdate and nothing else changed, and
\* every other entry (REGISTERED with fewer than FIRSTUPDATE_DELAY
\* confirmations, or ACTIVATED already) is as it was.  One name_firstupdate
\* is sent per eligible entry.
C24_UpdateActivatesTheEligible ==
  [][(last'.op = "manager.update" /\ last'.err = NoError)
       => /\ Len(names') = Len(names)
          /\ \A i \in DOMAIN names :
               /\ canActivate(names[i], "ok").err = NoError
               /\ names'[i] = Advanced(i)
               /\ i \in Eligible
                    => /\ names[i].state = REGISTERED
                       /\ ledger[names[i].tx] >= FIRSTUPDATE_DELAY
                       /\ names'[i].state = ACTIVATED
                       /\ names'[i].txActivation \notin DOMAIN ledger
                       /\ names'[i].txActivation \in DOMAIN ledger'
               /\ i \notin Eligible => names'[i] = names[i]
          /\ Len(CallsTo(last'.calls, "name_firstupdate"))
               = Cardinality(Eligible)
          /\ Cardinality(DOMAIN ledger') = NumTx + Cardinality(Eligible)]_vars

\* update has activated the two eligible entries of three and left the
\* third, whose name_new is unconfirmed, REGISTERED.
C24_Witness ==
  /\ last.op = "manager.update"
  /\ last.err = NoError
  /\ Len(names) = 3
  /\ names[1].state = ACTIVATED /\ ledger[names[1].txActivation] = 0
  /\ names[2].state = ACTIVATED /\ ledger[names[2].txActivation] = 0
  /\ names[1].txActivation # names[2].txActivation
  /\ names[3].state = REGISTERED /\ ledger[names[3].tx] = 0
  /\ Len(CallsTo(last.calls, "name_firstupdate")) = 2

\* C25: when an RPC call fails while update is at entry i, the exception
\* of that call leaves update; the entries before i are as an update
\* without failure leaves them (the eligible ones ACTIVATED), entry i and
\* the entries behind it are unchanged; and an update called again sends no
\* name_firstupdate for an entry that the failed one has activated.
C25_FailedUpdateKeepsEarlierEntries ==
  /\ [][(last'.op = "manager.update" /\ last'.err # NoError)
       => /\ last'.err = RpcFailure("rpc")
          /\ Len(names') = Len(names)
          /\ \E i \in DOMAIN names :
               /\ names[i].state = REGISTERED
               /\ \A j \in DOMAIN names :
                    names'[j] = IF j < i THEN Advanced(j) ELSE names[j]
               /\ Len(CallsTo(last'.calls, "name_firstupdate"))
                    \in {Cardinality(EligibleUpTo(i - 1)),
                         Cardinality(EligibleUpTo(i - 1)) + 1}]_vars
  /\ []((last.op = "manager.update" /\ last.err # NoError)
           => LET again == update(names, 0, "none")
              IN /\ again.err = NoError
                 /\ \A j \in DOMAIN names :
                      names[j].state = ACTIVATED
                        => /\ again.obj[j] = names[j]
                           /\ \A k \in DOMAIN again.calls :
                                again.calls[k].method = "name_firstupdate"
                                  => again.calls[k].args[3] # names[j].tx)

\* update has activated the first entry and has thrown at the second,
\* which is eligible and still REGISTERED.
C25_Witness ==
  /\ last.op = "manager.update"
  /\ last.err = RpcFailure("rpc")
  /\ Len(names) >= 2
  /\ names[1].state = ACTIVATED
  /\ names[1].txActivation = TxIdOf(NumTx)
  /\ ledger[names[1].txActivation] = 0
  /\ names[2].state = REGISTERED
  /\ canActivate(names[2], "ok").ret
  /\ CallsTo(last.calls, "name_firstupdate") # <<>>

\* The entries of the list that isFinished () is true for.
Finished == {i \in DOMAIN names : isFinished(names[i], "ok").ret}

C27_CleanUpIsIdempotent ==
  (last.op = "manager.cleanUp" /\ last.err = NoError)
    => /\ cleanUp(names, 0).err = NoError
       /\ cleanUp(names, 0).obj = names
       /\ cleanUpCount(names, 0) = 0
       /\ Finished = {}

\* cleanUp has removed two entries and has left an ACTIVATED one whose
\* name_firstupdate is unconfirmed, which a second call looks up again.
C27_Witness ==
  /\ last.op = "manager.cleanUp"
  /\ last.err = NoError
  /\ last.ret = 2
  /\ Len(names) = 1
  /\ names[1].state = ACTIVATED
  /\ ledger[names[1].txActivation] = 0
  /\ Len(cleanUp(names, 0).calls) = 1

\* The transactions a wallet makes, and the entries that hold one of them
\* as their name_new.
WalletTxIds == {TxIdOf(n) : n \in 1..MaxWalletTx}
EntriesOfTx(t) == {i \in DOMAIN names : names[i].tx = t}

\* C30: under a caller that keeps calling update and cleanUp until they
\* get through, and a chain that keeps confirming, every entry that a
\* registerName of the manager has started is gone from the list at some
\* later time; and an entry leaves the list only in a cleanUp, as an
\* ACTIVATED entry that isFinished () is true for.  So it was ACTIVATED at
\* some time, isFinished () was true for it at some time, and it was
\* removed.
C30_EveryEntryIsPurgedInTheEnd ==
  /\ \A t \in WalletTxIds :
       (\E i \in EntriesOfTx(t) : names[i].state = REGISTERED)
         ~> (EntriesOfTx(t) = {})
  /\ [][\A t \in WalletTxIds :
         (EntriesOfTx(t) # {} /\ {i \in DOMAIN names' : names'[i].tx = t} = {})
           => /\ last'.op = "manager.cleanUp"
              /\ \A i \in EntriesOfTx(t) :
                   /\ names[i].state = ACTIVATED
                   /\ isFinished(names[i], "ok").ret
                   /\ ledger[names[i].tx] >= FIRSTUPDATE_DELAY
                   /\ ledger[names[i].txActivation] >= 1]_vars

\* The first entry, registered, activated and confirmed, has been removed
\* by cleanUp while a later entry is still in the list.
C30_Witness ==
  /\ last.op = "manager.cleanUp"
  /\ last.err = NoError
  /\ last.ret = 1
  /\ EntriesOfTx(TxIdOf(1)) = {}
  /\ TxIdOf(1) \in DOMAIN ledger
  /\ TxIdOf(2) \in DOMAIN ledger /\ ledger[TxIdOf(2)] >= 1
  /\ Len(names) = 1
  /\ names[1].tx = TxIdOf(3)
  /\ NumTx = 3

\* The transaction a call on reg looks up, "" when the state of reg makes
\* it return or throw without a lookup.
LookedUp(op) ==
  IF op \in {"canActivate", "activate"} /\ reg.state = REGISTERED
    THEN reg.tx
  ELSE IF op = "isFinished" /\ reg.state = ACTIVATED
    THEN reg.txActivation
  ELSE ""

\* C28: when the transaction that canActivate, activate or isFinished
\* looks up is not in the wallet, the call throws: the RpcError of code -4
\* when the daemon answers, the error of the transport otherwise.  It
\* never returns, the only call made is the lookup, no transaction is
\* created and the object is as it was.  An RpcError of code -4 leaves
\* these calls in no other case.
C28_UnknownTransactionIsAnError ==
  [][last'.op \in {"canActivate", "activate", "isFinished"}
       => /\ (LookedUp(last'.op) # "" /\ LookedUp(last'.op) \notin DOMAIN ledger)
               => /\ last'.err \in {RpcError(-4), RpcFailure("rpc")}
                  /\ getNumberOfConfirmations(LookedUp(last'.op), "ok")
                       = [err |-> RpcError(-4), n |-> 0,
                          calls |-> last'.calls]
                  /\ last'.calls
                       = <<RpcCall("gettransaction", <<LookedUp(last'.op)>>)>>
                  /\ last'.ret = FALSE
                  /\ reg' = reg
                  /\ ledger' = ledger
          /\ last'.err = RpcError(-4)
               => /\ LookedUp(last'.op) # ""
                  /\ LookedUp(last'.op) \notin DOMAIN ledger]_vars

\* isFinished has thrown the RpcError of code -4 on an ACTIVATED object
\* whose name_firstupdate is not among the transactions of the wallet.
C28_Witness ==
  /\ last.op = "isFinished"
  /\ last.err = RpcError(-4)
  /\ reg.state = ACTIVATED
  /\ reg.txActivation \notin DOMAIN ledger
  /\ ledger # <<>>
  /\ last.calls = <<RpcCall("gettransaction", <<reg.txActivation>>)>>

\* The calls of the interfaces that the claims on remote errors are about.
InterfaceOps ==
  {"queryName", "queryAddress", "verifySignature", "signMessage", "unlock"}

\* The RpcError the daemon raised in a call with the answers rs, NoError
\* when it raised none, and the method it raised it in.
Raised(rs) ==
  IF rs # <<>> /\ rs[Len(rs)] # NoError THEN rs[Len(rs)] ELSE NoError

RaisedIn(calls) == IF calls = <<>> THEN "" ELSE calls[Len(calls)].method

\* A REGISTERED and an ACTIVATED process whose transactions the wallet at
\* hand does not hold.
StrayRegistered ==
  [NewNameRegistration EXCEPT !.state = REGISTERED, !.name = "d/b",
                              !.rand = "randX", !.tx = "txX"]

StrayActivated ==
  [NewNameRegistration EXCEPT !.state = ACTIVATED, !.name = "d/b",
                              !.txActivation = "txY"]

\* C29 as the claim has it: an RpcError of the daemon leaves every call of
\* the interfaces as it is, but for code -5 in verifySignature, which
\* makes it return false.
C29_OnlyMalformedSignatureIsSuppressed ==
  [][(last'.op \in InterfaceOps /\ Raised(replies') # NoError)
       => IF last'.op = "verifySignature" /\ Raised(replies').code = -5
            THEN last'.err = NoError /\ last'.ret = FALSE
            ELSE last'.err = Raised(replies')]_vars

\* C29, amended: a call of the interfaces ends with the first RpcError the
\* daemon raises.  Five cases do not hand it on: verifySignature returns
\* false for code -5; the lookup of a name returns a name that does not
\* exist for code -4, from name_show or from the lookup of its address;
\* signMessage throws std::runtime_error for code -13 and NoPrivateKey for
\* code -3; unlock throws UnlockFailure for code -14 of walletpassphrase
\* and leaves the unlocker locked.  Every other RpcError leaves the call
\* as the daemon raised it, and no call throws an RpcError the daemon did
\* not raise.  registerName, canActivate, activate and isFinished hand on
\* the RpcError of their call, code -4 of the lookup included.
C29_RemoteErrorsButFiveReachTheCaller ==
  /\ [][last'.op \in InterfaceOps
          => LET e == Raised(replies')
                 op == last'.op
                 in == RaisedIn(last'.calls)
             IN /\ Len(replies') = Len(last'.calls)
                /\ \A k \in 1..(Len(replies') - 1) : replies'[k] = NoError
                /\ last'.err.cls = "JsonRpc::RpcError" => last'.err = e
                /\ e # NoError
                     => IF op = "verifySignature" /\ e.code = -5
                          THEN last'.err = NoError /\ last'.ret = FALSE
                        ELSE IF op = "queryName" /\ e.code = -4
                          THEN /\ last'.err = NoError
                               /\ last'.nm = Name(last'.val, FALSE, FALSE)
                               /\ in \in {"name_show", "validateaddress"}
                        ELSE IF op = "signMessage" /\ e.code = -13
                          THEN last'.err
                                 = runtime_error("Need to unlock the wallet first.")
                        ELSE IF op = "signMessage" /\ e.code = -3
                          THEN last'.err = NoPrivateKey(last'.val)
                        ELSE IF op = "unlock" /\ e.code = -14
                                /\ in = "walletpassphrase"
                          THEN /\ last'.err
                                    = UnlockFailure("Wrong wallet passphrase.")
                               /\ unlocker' = unlocker
                               /\ ~unlocker'.unlocked
                        ELSE last'.err = e]_vars
  /\ [](/\ registerName(NewNameRegistration, Name("d/a", FALSE, FALSE),
                         "rpc", "txZ", "randZ").err = RpcFailure("rpc")
        /\ \A f \in RpcOutcomes :
             LET e == IF f = "rpc" THEN RpcFailure("rpc") ELSE RpcError(-4)
             IN /\ canActivate(StrayRegistered, f)
                     = Result(StrayRegistered, e, FALSE,
                              <<RpcCall("gettransaction", <<"txX">>)>>)
                /\ \A f2 \in RpcOutcomes :
                     activate(StrayRegistered, f, f2, "txZ")
                       = Result(StrayRegistered, e, FALSE,
                                <<RpcCall("gettransaction", <<"txX">>)>>)
                /\ isFinished(StrayActivated, f)
                     = Result(StrayActivated, e, FALSE,
                              <<RpcCall("gettransaction", <<"txY">>)>>))

\* The lookup of a name has returned a name that does not exist, because
\* the daemon answered name_show with the RpcError of code -4.
C29_Witness ==
  /\ last.op = "queryName"
  /\ last.err = NoError
  /\ last.nm = Name("d/a", FALSE, FALSE)
  /\ replies = <<RpcError(-4)>>
  /\ last.calls = <<RpcCall("name_show", <<"d/a">>)>>
  /\ unlocker.unlocked

\* The entries begin () .. end () visit, in the order of the visit: the
\* iterators wrap those of the vector.
Visited(list) == [k \in 1..Len(list) |-> list[k]]

\* The k-th entry of the list that update activates.
KthEligible(k) == CHOOSE i \in Eligible : Cardinality(EligibleUpTo(i)) = k

\* C31: the list keeps the order of insertion and holds a name as often as
\* it was registered.  A registerName that succeeds puts its entry behind
\* all others, whether or not an entry of that name is in the list, and
\* the manager never refuses a name because the list holds it; a load
\* leaves the entries in the order of the file; update visits the entries
\* in the order of the list and keeps every entry at its place; cleanUp
\* keeps the order of the entries it leaves.
C31_InsertionOrderNoUniqueness ==
  [][/\ last'.op = "manager.registerName"
          => /\ last'.err = NoError
                  => /\ Visited(names') = Append(Visited(names),
                                                 names'[Len(names')])
                     /\ names'[Len(names')].name = last'.nm.name
                     /\ \A i \in DOMAIN names :
                          /\ names'[i] = names[i]
                          /\ names'[Len(names')].tx # names[i].tx
             /\ last'.err.cls = "NameAlreadyReserved"
                  => last'.nm.ex /\ ~last'.nm.expired
             /\ (last'.nm.initialised /\ (~last'.nm.ex \/ last'.nm.expired))
                  => last'.err \in {NoError, RpcFailure("rpc")}
     /\ (last'.op = "manager.decode" /\ last'.err = NoError)
          => \E blob \in ManagerBlobs :
               /\ "elements" \in DOMAIN blob
               /\ Len(names') = Len(blob.elements)
               /\ \A k \in DOMAIN names' :
                    /\ names'[k].name = asString(blob.elements[k], "name")
                    /\ Visited(names')[k]
                         = decode(NewNameRegistration, blob.elements[k]).obj
     /\ (last'.op = "manager.update" /\ last'.err = NoError)
          => /\ Len(names') = Len(names)
             /\ \A i \in DOMAIN names :
                  names'[i].name = names[i].name /\ names'[i].tx = names[i].tx
             /\ LET sent == CallsTo(last'.calls, "name_firstupdate")
                IN /\ Len(sent) = Cardinality(Eligible)
                   /\ \A k \in DOMAIN sent :
                        sent[k].args[3] = names[KthEligible(k)].tx
     /\ (last'.op = "manager.cleanUp" /\ last'.err = NoError)
          => \A i \in DOMAIN names', j \in DOMAIN names' :
               i < j => \E a \in DOMAIN names, b \in DOMAIN names :
                          a < b /\ names[a] = names'[i] /\ names[b] = names'[j]
    ]_vars

\* A name has been registered a second time while its first entry is in
\* the list: the list holds two entries of that name, each with the
\* transaction of its own name_new, the older one first.
C31_Witness ==
  /\ last.op = "manager.registerName"
  /\ last.err = NoError
  /\ Len(names) = 2
  /\ names[1].name = names[2].name
  /\ names[1].tx = TxIdOf(1)
  /\ names[2].tx = TxIdOf(2)
  /\ names[1].rand # names[2].rand

\* The passphrase was sent and the daemon took it.
PassphraseTaken(l, rs) ==
  /\ l.calls # <<>>
  /\ l.calls[Len(l.calls)].method = "walletpassphrase"
  /\ Raised(rs) = NoError

C33_NotFoundIsANameThatDoesNotExist ==
  [][last'.op = "queryName"
       => LET nm == last'.nm
              n == last'.val
          IN /\ (Raised(replies') # NoError /\ Raised(replies').code = -4)
                  => /\ last'.err = NoError
                     /\ nm.initialised /\ ~nm.ex
             /\ last'.err = NoError
                  => /\ getName(nm) = [err |-> NoError, ret |-> n]
                     /\ exists(nm) = [err |-> NoError, ret |-> nm.ex]
                     /\ nm.ex <=> Raised(replies') = NoError
                     /\ \A e \in {getStringValue(nm).err, getAddress(nm).err,
                                  isExpired(nm).err,
                                  getExpireCounter(nm).err} :
                          /\ ~nm.ex => e = NameNotFound(n)
                          /\ nm.ex => e = NoError
                     /\ ~nm.ex => NameNotFound(n).name = n
                     /\ nm.ex => getAddress(nm).ret = "N-owner"]_vars

\* name_show has answered and the lookup of the address has failed with
\* code -4: the name returned does not exist and its value is refused.
C33_Witness ==
  /\ last.op = "queryName"
  /\ last.err = NoError
  /\ replies = <<NoError, RpcError(-4)>>
  /\ exists(last.nm) = [err |-> NoError, ret |-> FALSE]
  /\ getName(last.nm).ret = "d/b"
  /\ getStringValue(last.nm).err = NameNotFound("d/b")
  /\ getExpireCounter(last.nm).err = NameNotFound("d/b")

\* C36: every entry of the list of a manager is REGISTERED or ACTIVATED,
\* whatever calls of registerName, setValue, update, cleanUp and the stream
\* operators were made on the manager and whichever of them threw.
C36_NoEntryIsNotStarted ==
  \A i \in DOMAIN names : names[i].state \in {REGISTERED, ACTIVATED}

\* A load has thrown at the second element of its file, which has a state
\* it does not know: the list holds the first element and nothing of the
\* second.
C36_Witness ==
  /\ last.op = "manager.decode"
  /\ last.err = UnknownStateError
  /\ Len(names) = 1
  /\ names[1].state = ACTIVATED
  /\ NumTx = 2

\* C37: a load of a manager that throws, whatever it throws at, leaves the
\* list with the entries it held before the load, unchanged and in their
\* order.
C37_FailedLoadKeepsTheList ==
  [][(last'.op = "manager.decode" /\ last'.err # NoError)
       => names' = names]_vars

\* C38: a load of a process that throws leaves name, state, value, rand, tx
\* and txActivation of the object as they were before the load.
C38_FailedLoadKeepsTheObject ==
  [][(last'.op = "decode" /\ last'.err # NoError) => reg' = reg]_vars

\* A run of nmreg, as last records it.
IsRun(l) ==
  l.op \in {"nmreg info", "nmreg clear", "nmreg update", "nmreg register",
            "nmreg multi"}

\* The reservations (transactions of name_new) whose name_firstupdate the
\* daemon has taken in the run that left the manager list: a process that
\* was loaded ACTIVATED has no tx.
ActivatedInRun(list) ==
  {list[i].tx : i \in {j \in DOMAIN list : /\ list[j].state = ACTIVATED
                                          /\ list[j].tx # ""}}

\* C34: no reservation has its name_firstupdate taken by the daemon more
\* than once, whatever runs of nmreg are made and wherever they abort; in
\* particular not in two runs that follow each other.
C34_OneActivationPerReservation ==
  [][(IsRun(last) /\ IsRun(last'))
       => ActivatedInRun(names) \cap ActivatedInRun(names') = {}]_vars

\* The reservations a state file records: transaction and secret of the
\* entries it holds as registered.
SavedReservations(file) ==
  IF "elements" \notin DOMAIN file
    THEN {}
    ELSE {<<asString(file.elements[k], "tx"), asString(file.elements[k], "rand")>> :
            k \in {j \in DOMAIN file.elements :
                     asString(file.elements[j], "state") = "registered"}}

\* C35: every name_new the daemon has answered in a run of nmreg is in
\* the state file when the run has ended, with its transaction and its
\* secret, also when the run has thrown behind it.
C35_ReservationsAreSaved ==
  [][IsRun(last')
       => \A i \in DOMAIN names' :
            names'[i].tx \in DOMAIN ledger' \ DOMAIN ledger
              => <<names'[i].tx, names'[i].rand>> \in SavedReservations(stream')
    ]_vars


(* ------------------------------------------------------------------ *)
(* Ownership of the entries' storage.                                   *)

\* C40: the objects the manager has made with new and not deleted are
\* exactly the entries of its list: none is out of the list and still
\* allocated (more objects than entries), none is in the list and already
\* deleted (fewer objects than entries).
C40_ManagerOwnsItsEntries == heap = Len(names)

(* ------------------------------------------------------------------ *)
(* update against a chain that moves.                                   *)

\* C39: update never fails with NotYetEligibleError: the lookup inside
\* activate agrees with the lookup of canActivate whatever the chain does
\* between the two.
C39_UpdateIsNeverNotYetEligible ==
  ~(last.op = "manager.update" /\ last.err = NotYetEligibleError)

====
